---------------------------- MODULE Spec2Model ----------------------------
(***************************************************************************)
(* A model of the note manager: the identity codec of class Note           *)
(* (note.py), the directory layout (note_layout.py) and the traversal      *)
(* engine NoteIterator (note_iterator.py).                                 *)
(*                                                                         *)
(* Strings are sequences of one-character strings, paths are sequences of  *)
(* components.  Python integers are unbounded; the values the codec packs  *)
(* reach 2^32-1, so a packed value is kept as a pair <<hi, lo>> standing   *)
(* for hi * 65536 + lo with lo in 0..65535.                                *)
(***************************************************************************)
EXTENDS Integers, Sequences, FiniteSets, TLC

VARIABLES
    NOTE_CUT,            \* note_layout.NOTE_CUT: the cut depth
    fs,                  \* the filesystem under NOTE_DIR: a set of file paths
    since, until,        \* NoteIterator.since / until: a note or None
    reverse,             \* NoteIterator.reverse
    index_set,           \* NoteIterator.index_set: Some(list of (min,max)) or None
    index_max,           \* NoteIterator.index_max: Some(number) or None
    count,               \* the index_max argument of __init__ (main's --count)
    select_extensions,   \* NoteIterator.select_extensions
    exclude_extensions,  \* NoteIterator.exclude_extensions
    select_attributes,   \* NoteIterator.select_attributes
    exclude_attributes,  \* NoteIterator.exclude_attributes
    grep,                \* NoteIterator.grep: Some(pattern) or None
    meta,                \* the metadata records on disk, by path
    contents,            \* the lines of the files of fs
    cursor,              \* NoteIterator.cursor
    stacks,              \* NoteIterator.stacks
    index,               \* NoteIterator.index
    pc,                  \* where the caller and __next__ are
    result,              \* what the last __next__ call returned or raised
    yielded,             \* history: the notes returned so far, in order
    arg,                 \* codec, tagging: the note at hand
    nnid,                \* codec: Note.nnid_encode() of arg
    decoded,             \* codec: Note.nnid_decode(nnid)
    path,                \* codec: Note.realpath() + extension
    from_path,           \* codec: Note.absolute_path_to_note(path)
    input,               \* parsers: the function called and its argument
    output,              \* parsers: what the call returned or raised
    tag_remove,          \* main's args.tag_remove: a list of attributes
    tag_assign,          \* main's args.tag_assign: a list of attributes
    note_meta,           \* Note._meta of arg: a NoteMetadata or None
    pending,             \* tagging: the attributes a for loop has yet to visit
    peer,                \* a second NoteIterator, not running: its attributes, or None
    loaded,              \* the metadata records valid_note has opened
    visits               \* the directories listed and the stack entries popped, in order

vars == <<NOTE_CUT, fs, since, until, reverse, index_set, index_max, count,
          select_extensions, exclude_extensions, select_attributes,
          exclude_attributes, grep, meta, contents, cursor, stacks, index, pc,
          result, yielded, arg, nnid, decoded, path, from_path,
          input, output, tag_remove, tag_assign, note_meta, pending, peer,
          loaded, visits>>

\* What __init__ fixes for the whole traversal.
config_vars == <<NOTE_CUT, fs, since, until, reverse, index_set, index_max,
                 count, select_extensions, exclude_extensions,
                 select_attributes, exclude_attributes, grep, meta, contents>>

iter_vars == <<cursor, stacks, index, result, yielded>>

codec_vars == <<arg, nnid, decoded, path, from_path>>

parse_vars == <<input, output>>

tag_vars == <<tag_remove, tag_assign, note_meta, pending>>

\* Python's None, and a value that may be None: None or Some(v).
None == [none |-> TRUE]

Some(v) == [some |-> v]

-----------------------------------------------------------------------------
(* Characters, numbers and their text forms.                               *)

HexLower == <<"0","1","2","3","4","5","6","7","8","9","a","b","c","d","e","f">>

HexUpper == <<"0","1","2","3","4","5","6","7","8","9","A","B","C","D","E","F">>

Range(s) == { s[i] : i \in DOMAIN s }

DecChars == { HexLower[i] : i \in 1..10 }

\* The characters [0-9A-Fa-f] of the identifier pattern of nnid_decode.
HexChars == Range(HexLower) \cup Range(HexUpper)

\* The characters [0-9a-f] of the leaf pattern NOTE_CUT_RE[-1].
HexLowerChars == Range(HexLower)

\* The value int(c, 16) gives a hexadecimal digit.
HexVal(c) == CHOOSE v \in 0..15 : c = HexLower[v + 1] \/ c = HexUpper[v + 1]

\* The digits of n >= 0 in a base, most significant first, unpadded.
RECURSIVE DigitsOf(_, _)
DigitsOf(n, base) ==
    IF n < base THEN <<HexLower[n + 1]>>
    ELSE DigitsOf(n \div base, base) \o <<HexLower[(n % base) + 1]>>

RECURSIVE ZeroPad(_, _)
ZeroPad(s, width) ==
    IF Len(s) >= width THEN s ELSE ZeroPad(<<"0">> \o s, width)

\* '%0<width>d' % n
FmtDec(n, width) == ZeroPad(DigitsOf(n, 10), width)

\* int(s) of a string of decimal digits.
RECURSIVE ParseDec(_)
ParseDec(s) ==
    IF Len(s) = 0 THEN 0
    ELSE ParseDec(SubSeq(s, 1, Len(s) - 1)) * 10 + HexVal(s[Len(s)])

\* int(s, 16) of a string of at most four hexadecimal digits.
RECURSIVE ParseHex(_)
ParseHex(s) ==
    IF Len(s) = 0 THEN 0
    ELSE ParseHex(SubSeq(s, 1, Len(s) - 1)) * 16 + HexVal(s[Len(s)])

\* A packed value <<hi, lo>> = hi * 65536 + lo.
Wide(n) == <<n \div 65536, n % 65536>>

\* a * 1000000 + c as a packed value (1000000 = 15 * 65536 + 16960).
WideMillions(a, c) ==
    LET low == a * 16960 + c
    IN  <<a * 15 + low \div 65536, low % 65536>>

\* Quotient and remainder of a packed value by a small divisor (d < 32768).
WideDivMod(w, d) ==
    LET t == (w[1] % d) * 65536 + w[2]
    IN  [q |-> (w[1] \div d) * 65536 + t \div d, r |-> t % d]

WideLess(a, b) == a[1] < b[1] \/ (a[1] = b[1] /\ a[2] < b[2])

\* '%08x' % w: at least eight hexadecimal digits, more when w >= 2^32.
Fmt08x(w) == ZeroPad(DigitsOf(w[1], 16), 4) \o ZeroPad(DigitsOf(w[2], 16), 4)

\* int(s, 16) of a string of eight hexadecimal digits.
ParseHex8(s) == <<ParseHex(SubSeq(s, 1, 4)), ParseHex(SubSeq(s, 5, 8))>>

-----------------------------------------------------------------------------
(* datetime: a record of its seven fields; the constructor rejects fields  *)
(* outside the calendar with ValueError.                                   *)

Date(y, mo, d, h, mi, s, us) ==
    [year |-> y, month |-> mo, day |-> d, hour |-> h, minute |-> mi,
     second |-> s, microsecond |-> us]

IsLeap(y) == (y % 4 = 0) /\ ((y % 100 # 0) \/ (y % 400 = 0))

DaysInMonth(y, mo) ==
    IF mo = 2 THEN (IF IsLeap(y) THEN 29 ELSE 28)
    ELSE IF mo \in {4, 6, 9, 11} THEN 30 ELSE 31

ValidDate(d) ==
    /\ d.year \in 1..9999
    /\ d.month \in 1..12
    /\ d.day >= 1 /\ d.day <= DaysInMonth(d.year, d.month)
    /\ d.hour \in 0..23
    /\ d.minute \in 0..59
    /\ d.second \in 0..59
    /\ d.microsecond \in 0..999999

DateTuple(d) ==
    <<d.year, d.month, d.day, d.hour, d.minute, d.second, d.microsecond>>

RECURSIVE SeqLess(_, _)
SeqLess(a, b) ==
    IF Len(a) = 0 \/ Len(b) = 0 THEN Len(a) < Len(b)
    ELSE IF a[1] # b[1] THEN a[1] < b[1]
    ELSE SeqLess(Tail(a), Tail(b))

\* datetime.__lt__ on two UTC datetimes.
DateLess(a, b) == SeqLess(DateTuple(a), DateTuple(b))


-----------------------------------------------------------------------------
(* note_layout.py                                                          *)

NOTE_DIR == <<"NOTE_DIR">>

NOTE_CUT_LABEL ==
    <<"year", "month", "day", "minute", "second", "microsecond", "note">>

\* The widths of NOTE_CUT_FMT's '%04d', '%02d', '%02d', '%02d', '%02d', '%06d'.
NOTE_CUT_FMT == <<4, 2, 2, 2, 2, 6>>

\* The widths of the \d{n} patterns of NOTE_CUT_RE, the leaf pattern aside.
NOTE_CUT_RE == <<4, 2, 2, 2, 2, 2, 6>>

\* The cut depths the layout is used with.
CutDepths == 0..4

IsDigits(s, width) == Len(s) = width /\ \A i \in 1..Len(s) : s[i] \in DecChars

\* \S of the patterns: anything but white space.
IsSpace(c) == c = " "

\* NOTE_CUT_RE[-1]: (?P<nnid>[0-9a-f]{8}-[0-9a-f]{8}-[0-9a-f]{8})(?P<ext>\.\S+)
LeafMatch(fn) ==
    /\ Len(fn) >= 28
    /\ \A i \in 1..26 :
          IF i \in {9, 18} THEN fn[i] = "-" ELSE fn[i] \in HexLowerChars
    /\ fn[27] = "."
    /\ \A i \in 28..Len(fn) : ~IsSpace(fn[i])

LeafNnid(fn) == SubSeq(fn, 1, 26)

LeafExt(fn) == SubSeq(fn, 27, Len(fn))

-----------------------------------------------------------------------------
(* note.py: class Note.  A note is [date, rand, exts]; rand is packed.     *)

Note(date, rand, exts) == [date |-> date, rand |-> rand, exts |-> exts]

\* Note.dirname
dirname(note) ==
    <<NOTE_DIR>> \o
    [level \in 1..NOTE_CUT |->
        FmtDec(note.date[NOTE_CUT_LABEL[level]], NOTE_CUT_FMT[level])]

\* Note.head_encode
head_encode(date) ==
    (((date.year * 12) + date.month - 1) * 31 + date.day - 1) * 24 + date.hour

\* head_decode with the day left zero-based.
head_decode_zero_based_day(head) ==
    LET a == WideDivMod(head, 24)
        b == a.q \div 31
    IN  <<b \div 12, (b % 12) + 1, a.q % 31, a.r>>

\* Note.head_decode; int(head / 24) is the floor for every 32-bit head.
head_decode(head) ==
    LET a == WideDivMod(head, 24)
        hour == a.r
        day == (a.q % 31) + 1
        b == a.q \div 31
        month == (b % 12) + 1
        year == b \div 12
    IN  <<year, month, day, hour>>

\* tail_encode with the hour packed into the tail as well.
tail_encode_with_hour(date) ==
    WideMillions((((date.hour * 60) + date.minute) * 60) + date.second,
                 date.microsecond)

\* Note.tail_encode
tail_encode(date) ==
    WideMillions((date.minute * 60) + date.second, date.microsecond)

\* tail_decode with the microseconds taken modulo a thousand.
tail_decode_thousandths(tail) ==
    LET a == WideDivMod(tail, 1000)
        secs == a.q \div 1000
    IN  <<secs \div 60, secs % 60, a.r>>

\* Note.tail_decode; tail / 10**6 is split as two divisions by 1000.
tail_decode(tail) ==
    LET a == WideDivMod(tail, 1000)
        microsecond == (a.q % 1000) * 1000 + a.r
        secs == a.q \div 1000
        second == secs % 60
        minute == secs \div 60
    IN  <<minute, second, microsecond>>

\* Note.nnid_encode
nnid_encode(note) ==
    Fmt08x(Wide(head_encode(note.date))) \o <<"-">> \o
    Fmt08x(tail_encode(note.date)) \o <<"-">> \o Fmt08x(note.rand)

\* The pattern of nnid_decode, matched with re.match: three groups of 8
\* hexadecimal digits between ^ and $, and $ also matches before a newline
\* that ends the string.
NnidMatch(s) ==
    /\ Len(s) \in {26, 27}
    /\ Len(s) = 27 => s[27] = "\n"
    /\ \A i \in 1..26 :
          IF i \in {9, 18} THEN s[i] = "-" ELSE s[i] \in HexChars

\* Note.nnid_decode: a (date, rand), or the exception it raises.
nnid_decode(s) ==
    IF ~NnidMatch(s) THEN [status |-> "ArgumentTypeError"]
    ELSE
        LET h == head_decode(ParseHex8(SubSeq(s, 1, 8)))
            t == tail_decode(ParseHex8(SubSeq(s, 10, 17)))
            date == Date(h[1], h[2], h[3], h[4], t[1], t[2], t[3])
        IN  IF ValidDate(date)
            THEN [status |-> "ok", date |-> date,
                  rand |-> ParseHex8(SubSeq(s, 19, 26))]
            ELSE [status |-> "ValueError"]

\* Note.filename
filename(note) ==
    Fmt08x(Wide(head_encode(note.date))) \o <<"-">> \o
    Fmt08x(tail_encode(note.date)) \o <<"-">> \o Fmt08x(note.rand)

\* Note.realpath
realpath(note) == dirname(note) \o <<filename(note)>>

\* path + ext: the extension is appended to the last component.
PathPlusExt(p, ext) == SubSeq(p, 1, Len(p) - 1) \o <<p[Len(p)] \o ext>>

TXT == <<".", "t", "x", "t">>

JPG == <<".", "j", "p", "g">>

PNG == <<".", "p", "n", "g">>

\* The pattern path_re of Note.absolute_path_to_note, on a path's components:
\* NOTE_DIR, \d{4}, \d{2}, \d{2}, \d{2} and [hex]{8}-[hex]{8}\S*.
PathMatch(p) ==
    /\ Len(p) = 6
    /\ p[1] = NOTE_DIR
    /\ IsDigits(p[2], 4) /\ IsDigits(p[3], 2)
    /\ IsDigits(p[4], 2) /\ IsDigits(p[5], 2)
    /\ Len(p[6]) >= 17
    /\ \A i \in 1..Len(p[6]) :
          IF i = 9 THEN p[6][i] = "-"
          ELSE IF i <= 17 THEN p[6][i] \in HexChars
          ELSE ~IsSpace(p[6][i])

\* Note.absolute_path_to_note: a note, or the exception it raises.
absolute_path_to_note(p) ==
    IF ~PathMatch(p) THEN [status |-> "ArgumentTypeError"]
    ELSE
        LET t == tail_decode(ParseHex8(SubSeq(p[6], 1, 8)))
            date == Date(ParseDec(p[2]), ParseDec(p[3]), ParseDec(p[4]),
                         ParseDec(p[5]), t[1], t[2], t[3])
        IN  IF SubSeq(p[6], 18, Len(p[6])) # TXT
            THEN [status |-> "AssertionError"]
            ELSE IF ~ValidDate(date) THEN [status |-> "ValueError"]
            ELSE [status |-> "ok", date |-> date,
                  rand |-> ParseHex8(SubSeq(p[6], 10, 17))]

-----------------------------------------------------------------------------
(* Strings as Python orders them, and os.listdir on the model filesystem.  *)

\* The characters in use, in code point order.
Alphabet ==
    <<" ", ",", "-", ".", "0", "1", "2", "3", "4", "5", "6", "7", "8", "9",
      "A", "B", "C", "D", "E", "F", "a", "b", "c", "d", "e", "f", "g", "h",
      "i", "j", "k", "l", "m", "n", "o", "p", "q", "r", "s", "t", "u", "v",
      "w", "x", "y", "z">>

Ord(c) == CHOOSE i \in 1..Len(Alphabet) : Alphabet[i] = c

\* str.__lt__
RECURSIVE StrLess(_, _)
StrLess(a, b) ==
    IF Len(a) = 0 \/ Len(b) = 0 THEN Len(a) < Len(b)
    ELSE IF a[1] # b[1] THEN Ord(a[1]) < Ord(b[1])
    ELSE StrLess(Tail(a), Tail(b))

\* list.sort() of a directory listing (its names are distinct).
RECURSIVE SortNames(_)
SortNames(S) ==
    IF S = {} THEN <<>>
    ELSE LET m == CHOOSE x \in S : \A y \in S \ {x} : StrLess(x, y)
         IN  <<m>> \o SortNames(S \ {m})

\* stack[::-1]
RECURSIVE Reversed(_)
Reversed(s) ==
    IF Len(s) = 0 THEN <<>> ELSE Reversed(Tail(s)) \o <<Head(s)>>

IsPrefix(p, q) == Len(q) > Len(p) /\ SubSeq(q, 1, Len(p)) = p

\* Whether os.listdir(p) finds the directory p.
DirExists(p) == \E q \in fs : IsPrefix(p, q)

\* os.listdir(p): the names of the entries of directory p.
listdir(p) == { q[Len(p) + 1] : q \in { f \in fs : IsPrefix(p, f) } }

-----------------------------------------------------------------------------
(* note_iterator.py: class NoteIterator.                                   *)

CURSOR_LABEL == <<"root">> \o NOTE_CUT_LABEL

\* The date fields a cursor or a crop starts from.
DefaultDate == Date(1, 1, 1, 0, 0, 0, 0)

\* NoteIterator.cursor_date: the fields the cursor's components set.  The
\* cursor's first component is NOTE_DIR, its next ones are the buckets.
RECURSIVE cursor_fields(_, _)
cursor_fields(cur, level) ==
    IF level = 0 THEN DefaultDate
    ELSE [cursor_fields(cur, level - 1)
             EXCEPT ![CURSOR_LABEL[level + 1]] = ParseDec(cur[level + 1])]

cursor_date(cur) == cursor_fields(cur, Len(cur) - 1)

\* NoteIterator.crop_date
RECURSIVE crop_date(_, _)
crop_date(date, depth) ==
    IF depth <= 1 THEN DefaultDate
    ELSE [crop_date(date, depth - 1)
             EXCEPT ![CURSOR_LABEL[depth]] = date[CURSOR_LABEL[depth]]]

\* NoteIterator.valid_cursor, for a cursor whose date datetime accepts.
valid_cursor(cur) ==
    LET level == Len(cur)
        date == cursor_date(cur)
    IN  ~ \/ (since # None /\ DateLess(date, crop_date(since.date, level)))
          \/ (until # None /\ DateLess(crop_date(until.date, level), date))

\* An extension filter that applies the selection and no exclusion.
narrow_exts_select_only(exts) ==
    IF select_extensions # {}
    THEN { e \in exts : e \in select_extensions }
    ELSE exts

\* The extension filters of NoteIterator.valid_note: what is left of exts.
narrow_exts(exts) ==
    LET selected == IF select_extensions # {}
                    THEN { e \in exts : e \in select_extensions }
                    ELSE exts
    IN  IF exclude_extensions # {}
        THEN { e \in selected : e \notin exclude_extensions }
        ELSE selected

\* A date filter that compares timestamps only.
valid_note_date_timestamp_only(note) ==
    /\ since # None => ~DateLess(note.date, since.date)
    /\ until # None => ~DateLess(until.date, note.date)

\* The date filters of NoteIterator.valid_note.
valid_note_date(note) ==
    /\ since # None =>
          /\ ~DateLess(note.date, since.date)
          /\ ~(note.date = since.date /\ WideLess(note.rand, since.rand))
    /\ until # None =>
          /\ ~DateLess(until.date, note.date)
          /\ ~(note.date = until.date /\ WideLess(until.rand, note.rand))

\* A dict with no key, and a dict as the function from its keys.
EmptyDict == [k \in {} |-> None]

\* NoteMetadata.__init__: the attributes pickled in the record metafile,
\* or no attribute when the record cannot be opened.
load(store, metafile) ==
    IF metafile \in DOMAIN store THEN store[metafile] ELSE EmptyDict

\* The truth value Python gives a string or None.
Truthy(value) == value # None /\ value.some # <<>>

\* NoteMetadata.select_attribute
select_attribute(attr, filter) ==
    IF filter.key \notin DOMAIN attr THEN FALSE
    ELSE IF Truthy(filter.value) /\ filter.value # attr[filter.key] THEN FALSE
    ELSE TRUE

\* NoteMetadata.remove_attribute
remove_attribute(attr, a) ==
    IF select_attribute(attr, a)
    THEN [k \in DOMAIN attr \ {a.key} |-> attr[k]]
    ELSE attr

\* NoteMetadata.assign_attribute
assign_attribute(attr, a) ==
    [k \in DOMAIN attr \cup {a.key} |-> IF k = a.key THEN a.value ELSE attr[k]]

\* NoteMetadata.save of note.py, the class the program imports: the record
\* metafile is written when attr is not empty, and nothing is done otherwise.
save(store, metafile, attr) ==
    IF attr # EmptyDict
    THEN [p \in DOMAIN store \cup {metafile} |->
              IF p = metafile THEN attr ELSE store[p]]
    ELSE store

\* Attribute filters that require every select filter to match.
valid_note_attributes_all_selected(note) ==
    /\ \A a \in select_attributes :
          select_attribute(load(meta, realpath(note)), a)
    /\ \A a \in exclude_attributes :
          ~select_attribute(load(meta, realpath(note)), a)

\* The attribute filters of NoteIterator.valid_note; note.meta loads the
\* record at note.realpath().
valid_note_attributes(note) ==
    /\ select_attributes # {} =>
          \E a \in select_attributes :
              select_attribute(load(meta, realpath(note)), a)
    /\ \A a \in exclude_attributes :
          ~select_attribute(load(meta, realpath(note)), a)

RST == <<".", "r", "s", "t">>

MD == <<".", "m", "d">>

MW == <<".", "m", "w">>

NOTE_EXT_GREP == {TXT, RST, MW}

\* Note.extensions
extensions(note, for_grep) ==
    IF for_grep THEN { ext \in note.exts : ext \in NOTE_EXT_GREP }
    ELSE note.exts

\* re.search of a pattern with no special character: the pattern occurs in
\* the line.
search(pattern, line) ==
    \E i \in 1..(Len(line) - Len(pattern) + 1) :
        SubSeq(line, i, i + Len(pattern) - 1) = pattern

\* NoteIterator.valid_note_contents
valid_note_contents(note) ==
    IF grep # None
    THEN \E ext \in extensions(note, TRUE) :
             LET textfile == contents[PathPlusExt(realpath(note), ext)]
             IN  \E k \in 1..Len(textfile) : search(grep.some, textfile[k])
    ELSE TRUE

\* A valid_note that reads note.meta before any other check.
meta_loads_eager(note) == {realpath(note)}

\* The records NoteIterator.valid_note opens for a note: note.meta makes the
\* NoteMetadata of note.realpath() the first time an attribute filter is
\* evaluated, which the date and extension checks come before.
meta_loads(note) ==
    IF ~valid_note_date(note) THEN {}
    ELSE IF narrow_exts(note.exts) = {} THEN {}
    ELSE IF select_attributes # {} THEN {realpath(note)}
    ELSE IF exclude_attributes # {} THEN {realpath(note)}
    ELSE {}

\* NoteIterator.valid_note; the extension filters replace note.exts before
\* the contents are read.
valid_note(note) ==
    /\ valid_note_date(note)
    /\ narrow_exts(note.exts) # {}
    /\ valid_note_attributes(note)
    /\ valid_note_contents(Note(note.date, note.rand, narrow_exts(note.exts)))

\* NoteIterator.max_depth
max_depth(stks) == Len(stks) = NOTE_CUT + 2

\* The loop of stack_push with no merge: every file is an entry.
RECURSIVE comb_leaves_no_merge(_, _)
comb_leaves_no_merge(names, comb) ==
    IF Len(names) = 0 THEN comb
    ELSE IF ~LeafMatch(Head(names)) THEN comb_leaves_no_merge(Tail(names), comb)
    ELSE comb_leaves_no_merge(Tail(names),
             Append(comb, <<LeafNnid(Head(names)), {LeafExt(Head(names))}>>))

\* The loop of stack_push with no "continue": a name the leaf pattern
\* rejects becomes an entry.
RECURSIVE comb_leaves_keep_unmatched(_, _)
comb_leaves_keep_unmatched(names, comb) ==
    IF Len(names) = 0 THEN comb
    ELSE LET fn == Head(names)
         IN  IF ~LeafMatch(fn)
             THEN comb_leaves_keep_unmatched(Tail(names), Append(comb, <<fn, {<<>>}>>))
             ELSE IF Len(comb) > 0 /\ comb[Len(comb)][1] = LeafNnid(fn)
             THEN comb_leaves_keep_unmatched(Tail(names),
                      [comb EXCEPT ![Len(comb)] =
                          <<LeafNnid(fn), comb[Len(comb)][2] \cup {LeafExt(fn)}>>])
             ELSE comb_leaves_keep_unmatched(Tail(names),
                      Append(comb, <<LeafNnid(fn), {LeafExt(fn)}>>))

\* The merge loop of stack_push: files of one identifier become one entry.
RECURSIVE comb_leaves(_, _)
comb_leaves(names, comb) ==
    IF Len(names) = 0 THEN comb
    ELSE LET fn == Head(names)
         IN  IF ~LeafMatch(fn) THEN comb_leaves(Tail(names), comb)
             ELSE IF Len(comb) > 0 /\ comb[Len(comb)][1] = LeafNnid(fn)
             THEN comb_leaves(Tail(names),
                      [comb EXCEPT ![Len(comb)] =
                          <<LeafNnid(fn), comb[Len(comb)][2] \cup {LeafExt(fn)}>>])
             ELSE comb_leaves(Tail(names),
                      Append(comb, <<LeafNnid(fn), {LeafExt(fn)}>>))

RECURSIVE FilterSeq(_, _)
FilterSeq(names, width) ==
    IF Len(names) = 0 THEN <<>>
    ELSE (IF IsDigits(Head(names), width) THEN <<Head(names)>> ELSE <<>>)
         \o FilterSeq(Tail(names), width)

\* NoteIterator.stack_push: the level pushed for cursor cur when the stacks
\* are stks.
stack_level(cur, stks) ==
    IF ~DirExists(cur) THEN <<>>
    ELSE LET stack == SortNames(listdir(cur))
             kept == IF NOTE_CUT + 2 = Len(stks) + 1
                     THEN comb_leaves(stack, <<>>)
                     ELSE FilterSeq(stack, NOTE_CUT_RE[Len(stks)])
         IN  IF ~reverse THEN Reversed(kept) ELSE kept

\* stack_push with no except clause around os.listdir.
stack_push_uncaught(cur, stks) ==
    IF cur \in fs THEN [status |-> "NotADirectoryError"]
    ELSE IF ~DirExists(cur) THEN [status |-> "FileNotFoundError"]
    ELSE [status |-> "ok", level |-> stack_level(cur, stks)]

\* NoteIterator.stack_push as its caller sees it: os.listdir of a file
\* raises NotADirectoryError, which the except clause does not catch; of a
\* missing directory it raises FileNotFoundError, which is caught and an
\* empty level pushed.
stack_push(cur, stks) ==
    IF cur \in fs THEN [status |-> "NotADirectoryError"]
    ELSE [status |-> "ok", level |-> stack_level(cur, stks)]

Last(s) == s[Len(s)]

ButLast(s) == SubSeq(s, 1, Len(s) - 1)

\* stacks[-1].pop()
PopTop(stks) == [stks EXCEPT ![Len(stks)] = ButLast(stks[Len(stks)])]

\* NoteIterator.parse_attributes: attributes are [key, value] records, the
\* value None or Some(string).  ArgumentTypeError is not imported by
\* note_iterator.py, so the raise ends in a NameError.
parse_attributes(attributes) ==
    IF \E attr \in attributes : attr.key = <<>>
    THEN [status |-> "IndexError"]
    ELSE IF \E attr \in attributes :
           attr.key[1] = "." /\ attr.value # None /\ attr.value.some # <<>>
    THEN [status |-> "NameError"]
    ELSE [status |-> "ok",
          exts |-> { attr.key : attr \in { a \in attributes : a.key[1] = "." } },
          meta |-> { a \in attributes : a.key[1] # "." }]

\* The two parse_attributes calls of NoteIterator.__init__: the four filter
\* sets, or the exception of the first call that raises.
init_filters(select, exclude) ==
    IF parse_attributes(select).status # "ok"
    THEN [status |-> parse_attributes(select).status]
    ELSE IF parse_attributes(exclude).status # "ok"
    THEN [status |-> parse_attributes(exclude).status]
    ELSE [status |-> "ok",
          select_extensions |-> parse_attributes(select).exts,
          select_attributes |-> parse_attributes(select).meta,
          exclude_extensions |-> parse_attributes(exclude).exts,
          exclude_attributes |-> parse_attributes(exclude).meta]

\* str.split(sep)
RECURSIVE Split(_, _)
Split(str, sep) ==
    IF \A i \in 1..Len(str) : str[i] # sep THEN <<str>>
    ELSE LET i == CHOOSE k \in 1..Len(str) :
                      str[k] = sep /\ \A j \in 1..(k - 1) : str[j] # sep
         IN  <<SubSeq(str, 1, i - 1)>> \o Split(SubSeq(str, i + 1, Len(str)), sep)

IsNumber(str) == Len(str) >= 1 /\ \A i \in 1..Len(str) : str[i] \in DecChars

\* The pattern ((^|,)\d+(-\d+)?)+$ of argparse_range.
RangeMatch(str) ==
    \A i \in 1..Len(Split(str, ",")) :
        LET pair == Split(Split(str, ",")[i], "-")
        IN  Len(pair) \in {1, 2} /\ \A k \in 1..Len(pair) : IsNumber(pair[k])

\* The pair of strings of one item: 'a' is doubled, 'a-b' is split.
RangePair(item) ==
    LET pair == Split(item, "-")
    IN  IF Len(pair) = 1 THEN pair \o pair ELSE pair

\* tuple.__lt__ on (min, max) pairs.
PairLess(a, b) == a[1] < b[1] \/ (a[1] = b[1] /\ a[2] < b[2])

\* list.sort() of the result of argparse_range.
RECURSIVE SortPairs(_)
SortPairs(pairs) ==
    IF Len(pairs) = 0 THEN <<>>
    ELSE LET i == CHOOSE k \in 1..Len(pairs) :
                      \A j \in 1..Len(pairs) : ~PairLess(pairs[j], pairs[k])
         IN  <<pairs[i]>> \o
             SortPairs(SubSeq(pairs, 1, i - 1) \o SubSeq(pairs, i + 1, Len(pairs)))

\* NoteIterator.argparse_range: the sorted list of (min, max), or the error.
\* The bounds of an item are compared as strings.
argparse_range(str) ==
    IF ~RangeMatch(str) THEN [status |-> "NameError"]
    ELSE LET items == Split(str, ",")
         IN  IF \E i \in 1..Len(items) :
                    StrLess(RangePair(items[i])[2], RangePair(items[i])[1])
             THEN [status |-> "NameError"]
             ELSE [status |-> "ok",
                   ranges |-> SortPairs(
                       [i \in 1..Len(items) |->
                           <<ParseDec(RangePair(items[i])[1]),
                             ParseDec(RangePair(items[i])[2])>>])]

Min(a, b) == IF a < b THEN a ELSE b

\* The index_max NoteIterator.__init__ keeps, from its index_set and
\* index_max arguments.
init_index_max(iset, imax) ==
    IF iset # None /\ iset.some # <<>>
    THEN IF imax # None /\ imax.some # 0
         THEN Some(Min(Last(iset.some)[2], imax.some))
         ELSE Some(Last(iset.some)[2])
    ELSE imax

-----------------------------------------------------------------------------
(* Note.argparse: an identifier or a date-spec yyyy-mm-ddThh:mm:ss.uuuuuu  *)
(* cut short after any field.  TZ_LOCAL is taken to be UTC, so the fields  *)
(* of the local date are those of the UTC date returned.                   *)

\* The text before the field of each level of the pattern.
SEPARATOR == <<"", "-", "-", "T", ":", ":", ".">>

\* The numbers of digits the pattern takes for the field of a level:
\* \d{4}|\d{2}, \d{1,2} and \d{6}.
FieldWidths(level) ==
    IF level = 1 THEN {2, 4} ELSE IF level = 7 THEN {6} ELSE {1, 2}

\* The number of decimal digits str starts with.
DigitRun(str) ==
    CHOOSE k \in 0..Len(str) :
        /\ \A i \in 1..k : str[i] \in DecChars
        /\ k = Len(str) \/ str[k + 1] \notin DecChars

\* pattern.match(arg): the groups matched from the given level on, str
\* starting at the digits of that level.  $ matches at the end of the string
\* and before a newline that ends it.
RECURSIVE date_fields(_, _)
date_fields(str, level) ==
    LET k == DigitRun(str)
        rest == SubSeq(str, k + 1, Len(str))
    IN  IF k \notin FieldWidths(level) THEN [ok |-> FALSE, groups |-> <<>>]
        ELSE IF rest = <<>> \/ rest = <<"\n">>
        THEN [ok |-> TRUE, groups |-> <<SubSeq(str, 1, k)>>]
        ELSE IF level = 7 THEN [ok |-> FALSE, groups |-> <<>>]
        ELSE IF rest[1] # SEPARATOR[level + 1] THEN [ok |-> FALSE, groups |-> <<>>]
        ELSE LET sub == date_fields(Tail(rest), level + 1)
             IN  [ok |-> sub.ok, groups |-> <<SubSeq(str, 1, k)>> \o sub.groups]

\* datetime.now().year
NowYear == 2026

\* date + timedelta(days=1) and the carries into it; a year past 9999 is
\* left for the caller to reject.
add_day(d) ==
    IF d.day < DaysInMonth(d.year, d.month) THEN [d EXCEPT !.day = @ + 1]
    ELSE IF d.month < 12 THEN [d EXCEPT !.day = 1, !.month = @ + 1]
    ELSE [d EXCEPT !.day = 1, !.month = 1, !.year = @ + 1]

add_hour(d) ==
    IF d.hour < 23 THEN [d EXCEPT !.hour = @ + 1]
    ELSE add_day([d EXCEPT !.hour = 0])

add_minute(d) ==
    IF d.minute < 59 THEN [d EXCEPT !.minute = @ + 1]
    ELSE add_hour([d EXCEPT !.minute = 0])

add_second(d) ==
    IF d.second < 59 THEN [d EXCEPT !.second = @ + 1]
    ELSE add_minute([d EXCEPT !.second = 0])

\* date - timedelta(microseconds=1)
sub_day(d) ==
    IF d.day > 1 THEN [d EXCEPT !.day = @ - 1]
    ELSE IF d.month > 1
    THEN [d EXCEPT !.month = @ - 1, !.day = DaysInMonth(d.year, d.month - 1)]
    ELSE [d EXCEPT !.year = @ - 1, !.month = 12, !.day = 31]

sub_hour(d) ==
    IF d.hour > 0 THEN [d EXCEPT !.hour = @ - 1]
    ELSE sub_day([d EXCEPT !.hour = 23])

sub_minute(d) ==
    IF d.minute > 0 THEN [d EXCEPT !.minute = @ - 1]
    ELSE sub_hour([d EXCEPT !.minute = 59])

sub_second(d) ==
    IF d.second > 0 THEN [d EXCEPT !.second = @ - 1]
    ELSE sub_minute([d EXCEPT !.second = 59])

sub_microsecond(d) ==
    IF d.microsecond > 0 THEN [d EXCEPT !.microsecond = @ - 1]
    ELSE sub_second([d EXCEPT !.microsecond = 999999])

\* The round_up branch of Note.argparse: the date moved to the next period
\* of the last field given, less a microsecond, or the exception datetime
\* raises when the next period starts after year 9999.
round_up_date(date, level) ==
    LET next == IF level = 1 THEN [date EXCEPT !.year = @ + 1]
                ELSE IF level = 2
                THEN (IF date.month < 12 THEN [date EXCEPT !.month = @ + 1]
                      ELSE [date EXCEPT !.year = @ + 1, !.month = 1])
                ELSE IF level = 3 THEN add_day(date)
                ELSE IF level = 4 THEN add_hour(date)
                ELSE IF level = 5 THEN add_minute(date)
                ELSE IF level = 6 THEN add_second(date)
                ELSE date
    IN  IF next.year > 9999
        THEN [status |-> IF level <= 2 THEN "ValueError" ELSE "OverflowError"]
        ELSE [status |-> "ok",
              date |-> IF level < 7 THEN sub_microsecond(next) ELSE next,
              rand |-> <<0, 0>>]

\* Note.argparse
argparse(text, round_up) ==
    IF nnid_decode(text).status = "ok"
    THEN [status |-> "ok", date |-> nnid_decode(text).date,
          rand |-> nnid_decode(text).rand]
    ELSE IF nnid_decode(text).status # "ArgumentTypeError"
    THEN [status |-> nnid_decode(text).status]
    ELSE IF ~date_fields(text, 1).ok THEN [status |-> "ArgumentTypeError"]
    ELSE
        LET groups == date_fields(text, 1).groups
            level == Len(groups)
            value(i, default) ==
                IF i <= level THEN ParseDec(groups[i]) ELSE default
            year == IF value(1, 0) < 100
                    THEN value(1, 0) + (NowYear - (NowYear % 100))
                    ELSE value(1, 0)
            date == Date(year, value(2, 1), value(3, 1), value(4, 0),
                         value(5, 0), value(6, 0), value(7, 0))
        IN  IF \/ date.month > 12 \/ date.day > 31 \/ date.hour > 24
               \/ date.minute > 59 \/ date.second > 59
            THEN [status |-> "ArgumentTypeError"]
            ELSE IF ~ValidDate(date) THEN [status |-> "ValueError"]
            ELSE IF round_up THEN round_up_date(date, level)
            ELSE [status |-> "ok", date |-> date, rand |-> <<0, 0>>]

-----------------------------------------------------------------------------
(* The codec on its own: a note is drawn, encoded, decoded, mapped to its  *)
(* path and the path mapped back.                                          *)

\* Note.RAND_MIN, Note.RAND_MAX and two values between them.
SampleRand == {<<0, 0>>, <<0, 1>>, <<57005, 48879>>, <<65535, 65535>>}

SampleDates ==
    { d \in { Date(y, mo, dd, h, mi, sc, us) :
                y \in {1, 2020, 9999}, mo \in {1, 2, 12}, dd \in {1, 29, 31},
                h \in {0, 23}, mi \in {0, 59}, sc \in {0, 59},
                us \in {0, 999999} } : ValidDate(d) }

IdleIterator ==
    /\ fs = {}
    /\ since = None /\ until = None /\ reverse = FALSE
    /\ index_set = None /\ index_max = None /\ count = None
    /\ select_extensions = {} /\ exclude_extensions = {}
    /\ select_attributes = {} /\ exclude_attributes = {}
    /\ grep = None /\ meta = EmptyDict /\ contents = EmptyDict
    /\ cursor = <<>> /\ stacks = <<<<NOTE_DIR>>>> /\ index = 0
    /\ result = None /\ yielded = <<>>

\* No tagging is asked for.
IdleTagging ==
    /\ tag_remove = <<>> /\ tag_assign = <<>>
    /\ note_meta = None /\ pending = <<>>

\* Nothing is listed or popped before the first call.
NoVisit == [listed |-> <<>>, popped |-> <<>>]

\* No second NoteIterator is made, and no metadata record is opened yet.
Single == peer = None /\ loaded = {} /\ visits = NoVisit

InitCodec ==
    /\ NOTE_CUT \in CutDepths
    /\ arg \in { Note(d, r, {TXT}) : d \in SampleDates, r \in SampleRand }
    /\ nnid = <<>> /\ decoded = None /\ path = <<>> /\ from_path = None
    /\ pc = "codec"
    /\ input = None /\ output = None
    /\ IdleIterator /\ IdleTagging /\ Single

NnidEncode ==
    /\ pc = "codec" /\ nnid = <<>>
    /\ nnid' = nnid_encode(arg)
    /\ UNCHANGED <<config_vars, pc, arg, decoded, path, from_path, iter_vars, parse_vars, tag_vars, peer, loaded, visits>>

NnidDecode ==
    /\ pc = "codec" /\ nnid # <<>> /\ decoded = None
    /\ decoded' = nnid_decode(nnid)
    /\ UNCHANGED <<config_vars, pc, arg, nnid, path, from_path, iter_vars, parse_vars, tag_vars, peer, loaded, visits>>

Realpath ==
    /\ pc = "codec" /\ decoded # None /\ path = <<>>
    /\ path' = PathPlusExt(realpath(arg), TXT)
    /\ UNCHANGED <<config_vars, pc, arg, nnid, decoded, from_path, iter_vars, parse_vars, tag_vars, peer, loaded, visits>>

AbsolutePathToNote ==
    /\ pc = "codec" /\ path # <<>> /\ from_path = None
    /\ from_path' = absolute_path_to_note(path)
    /\ UNCHANGED <<config_vars, pc, arg, nnid, decoded, path, iter_vars, parse_vars, tag_vars, peer, loaded, visits>>

NextCodec == NnidEncode \/ NnidDecode \/ Realpath \/ AbsolutePathToNote

SpecCodec == InitCodec /\ [][NextCodec]_vars

-----------------------------------------------------------------------------
(* The traversal.  pc is "idle" between pull-next calls, "next" at the top *)
(* of the loop of __next__, "find" inside find_note, "found" when          *)
(* find_note has returned a note, "stopped" once StopIteration was raised  *)
(* and "error" once another exception left __next__ (no caller in the      *)
(* repository catches it).                                                 *)

\* An exception that leaves __next__, and the function that raised it.
Raised(exception, where) == [raised |-> exception, in |-> where]

StopIteration == Raised("StopIteration", "__next__")

Top(stks) == stks[Len(stks)]

\* A caller pulls the next note: for note in notes / next(notes).
Call ==
    /\ pc \in {"idle", "stopped"}
    /\ pc' = "next"
    /\ UNCHANGED <<config_vars, iter_vars, codec_vars, parse_vars, tag_vars, peer, loaded, visits>>

\* __next__: index_max is reached, StopIteration.
CapReached ==
    /\ pc = "next"
    /\ index_max # None /\ index_max.some < index + 1
    /\ pc' = "stopped"
    /\ result' = StopIteration
    /\ UNCHANGED <<config_vars, cursor, stacks,
                   index, yielded, codec_vars, parse_vars, tag_vars, peer, loaded, visits>>

\* __next__: find_note is called.
EnterFind ==
    /\ pc = "next"
    /\ ~(index_max # None /\ index_max.some < index + 1)
    /\ pc' = "find"
    /\ UNCHANGED <<config_vars, iter_vars, codec_vars, parse_vars, tag_vars, peer, loaded, visits>>

\* stacks[-1].pop() of the entry named name under the cursor.
Pop(name) == [visits EXCEPT !.popped = Append(@, Append(cursor, name))]

\* The pop of a directory name that stack_push then lists.
PopAndList(name) ==
    [visits EXCEPT !.popped = Append(@, Append(cursor, name)),
                   !.listed = Append(@, Append(cursor, name))]

\* find_note, descend: a name is popped and appended to the cursor, the
\* cursor is valid and stack_push lists it.
Descend ==
    /\ pc = "find"
    /\ ~max_depth(stacks) /\ Top(stacks) # <<>>
    /\ LET cur == Append(cursor, Last(Top(stacks)))
       IN  /\ ValidDate(cursor_date(cur))
           /\ valid_cursor(cur)
           /\ stack_push(cur, PopTop(stacks)).status = "ok"
           /\ cursor' = cur
           /\ stacks' = Append(PopTop(stacks),
                               stack_push(cur, PopTop(stacks)).level)
    /\ visits' = PopAndList(Last(Top(stacks)))
    /\ UNCHANGED <<config_vars, index, pc, result,
                   yielded, codec_vars, parse_vars, tag_vars, peer, loaded>>

\* find_note, descend: the cursor is valid and os.listdir raises an
\* exception stack_push does not catch.
ListError ==
    /\ pc = "find"
    /\ ~max_depth(stacks) /\ Top(stacks) # <<>>
    /\ LET cur == Append(cursor, Last(Top(stacks)))
       IN  /\ ValidDate(cursor_date(cur))
           /\ valid_cursor(cur)
           /\ stack_push(cur, PopTop(stacks)).status # "ok"
           /\ cursor' = cur
           /\ stacks' = PopTop(stacks)
           /\ pc' = "error"
           /\ result' = Raised(stack_push(cur, PopTop(stacks)).status, "stack_push")
    /\ visits' = Pop(Last(Top(stacks)))
    /\ UNCHANGED <<config_vars, index, yielded,
                   codec_vars, parse_vars, tag_vars, peer, loaded>>

\* A descend step that drops the name and leaves it on the cursor.
PruneKeepsCursor ==
    /\ pc = "find"
    /\ ~max_depth(stacks) /\ Top(stacks) # <<>>
    /\ LET cur == Append(cursor, Last(Top(stacks)))
       IN  /\ ValidDate(cursor_date(cur))
           /\ ~valid_cursor(cur)
           /\ cursor' = cur
    /\ stacks' = PopTop(stacks)
    /\ visits' = Pop(Last(Top(stacks)))
    /\ UNCHANGED <<config_vars, index, pc,
                   result, yielded, codec_vars, parse_vars, tag_vars, peer, loaded>>

\* find_note, descend: the cursor is not valid, the name is dropped.
Prune ==
    /\ pc = "find"
    /\ ~max_depth(stacks) /\ Top(stacks) # <<>>
    /\ LET cur == Append(cursor, Last(Top(stacks)))
       IN  /\ ValidDate(cursor_date(cur))
           /\ ~valid_cursor(cur)
    /\ stacks' = PopTop(stacks)
    /\ visits' = Pop(Last(Top(stacks)))
    /\ UNCHANGED <<config_vars, cursor, index, pc,
                   result, yielded, codec_vars, parse_vars, tag_vars, peer, loaded>>

\* find_note, descend: datetime rejects the fields of the cursor and
\* cursor_date raises ValueError, the name already appended.
BucketError ==
    /\ pc = "find"
    /\ ~max_depth(stacks) /\ Top(stacks) # <<>>
    /\ ~ValidDate(cursor_date(Append(cursor, Last(Top(stacks)))))
    /\ cursor' = Append(cursor, Last(Top(stacks)))
    /\ stacks' = PopTop(stacks)
    /\ pc' = "error"
    /\ result' = Raised("ValueError", "cursor_date")
    /\ visits' = Pop(Last(Top(stacks)))
    /\ UNCHANGED <<config_vars, index, yielded,
                   codec_vars, parse_vars, tag_vars, peer, loaded>>

\* A leaf step that reads the last entry and leaves it on the stack.
LeafAcceptKeepsEntry ==
    /\ pc = "find"
    /\ max_depth(stacks) /\ Top(stacks) # <<>>
    /\ LET entry == Last(Top(stacks))
           dec == nnid_decode(entry[1])
       IN  /\ dec.status = "ok"
           /\ valid_note(Note(dec.date, dec.rand, entry[2]))
           /\ loaded' = loaded \cup meta_loads(Note(dec.date, dec.rand, entry[2]))
           /\ result' = Note(dec.date, dec.rand, narrow_exts(entry[2]))
    /\ stacks' = stacks
    /\ index' = index + 1
    /\ pc' = "found"
    /\ visits' = Pop(Last(Top(stacks))[1])
    /\ UNCHANGED <<config_vars, cursor, yielded,
                   codec_vars, parse_vars, tag_vars, peer>>

\* find_note, leaf: an entry is popped, decoded and passes valid_note.
LeafAccept ==
    /\ pc = "find"
    /\ max_depth(stacks) /\ Top(stacks) # <<>>
    /\ LET entry == Last(Top(stacks))
           dec == nnid_decode(entry[1])
       IN  /\ dec.status = "ok"
           /\ valid_note(Note(dec.date, dec.rand, entry[2]))
           /\ loaded' = loaded \cup meta_loads(Note(dec.date, dec.rand, entry[2]))
           /\ result' = Note(dec.date, dec.rand, narrow_exts(entry[2]))
    /\ stacks' = PopTop(stacks)
    /\ index' = index + 1
    /\ pc' = "found"
    /\ visits' = Pop(Last(Top(stacks))[1])
    /\ UNCHANGED <<config_vars, cursor, yielded,
                   codec_vars, parse_vars, tag_vars, peer>>

\* find_note, leaf: an entry is popped, decoded and fails valid_note.
LeafReject ==
    /\ pc = "find"
    /\ max_depth(stacks) /\ Top(stacks) # <<>>
    /\ LET entry == Last(Top(stacks))
           dec == nnid_decode(entry[1])
       IN  /\ dec.status = "ok"
           /\ ~valid_note(Note(dec.date, dec.rand, entry[2]))
           /\ loaded' = loaded \cup meta_loads(Note(dec.date, dec.rand, entry[2]))
    /\ stacks' = PopTop(stacks)
    /\ visits' = Pop(Last(Top(stacks))[1])
    /\ UNCHANGED <<config_vars, cursor, index, pc,
                   result, yielded, codec_vars, parse_vars, tag_vars, peer>>

\* find_note, leaf: an entry is popped and nnid_decode raises; nothing
\* catches the exception and it leaves __next__.
LeafCorrupt ==
    /\ pc = "find"
    /\ max_depth(stacks) /\ Top(stacks) # <<>>
    /\ nnid_decode(Last(Top(stacks))[1]).status # "ok"
    /\ stacks' = PopTop(stacks)
    /\ pc' = "error"
    /\ result' = Raised(nnid_decode(Last(Top(stacks))[1]).status, "nnid_decode")
    /\ visits' = Pop(Last(Top(stacks))[1])
    /\ UNCHANGED <<config_vars, cursor, index,
                   yielded, codec_vars, parse_vars, tag_vars, peer, loaded>>

\* find_note, ascend: the top level is exhausted.
Ascend ==
    /\ pc = "find"
    /\ cursor # <<>> /\ Top(stacks) = <<>>
    /\ cursor' = ButLast(cursor)
    /\ stacks' = ButLast(stacks)
    /\ UNCHANGED <<config_vars, index, pc, result,
                   yielded, codec_vars, parse_vars, tag_vars, peer, loaded, visits>>

\* An end of the iteration that puts the stacks back as __init__ made them.
ExhaustedRewinds ==
    /\ pc = "find"
    /\ cursor = <<>> /\ Top(stacks) = <<>>
    /\ pc' = "stopped"
    /\ result' = StopIteration
    /\ stacks' = <<<<NOTE_DIR>>>>
    /\ UNCHANGED <<config_vars, cursor,
                   index, yielded, codec_vars, parse_vars, tag_vars, peer, loaded, visits>>

\* find_note returns None and __next__ raises StopIteration.
Exhausted ==
    /\ pc = "find"
    /\ cursor = <<>> /\ Top(stacks) = <<>>
    /\ pc' = "stopped"
    /\ result' = StopIteration
    /\ UNCHANGED <<config_vars, cursor, stacks,
                   index, yielded, codec_vars, parse_vars, tag_vars, peer, loaded, visits>>

\* The index set test of __next__.
in_index_set(k) ==
    IF index_set = None THEN TRUE
    ELSE \E i \in 1..Len(index_set.some) :
             index_set.some[i][1] <= k /\ k <= index_set.some[i][2]

\* __next__ returns the note find_note found.
Surface ==
    /\ pc = "found"
    /\ in_index_set(index)
    /\ pc' = "idle"
    /\ yielded' = Append(yielded, [date |-> result.date, rand |-> result.rand,
                                   exts |-> result.exts, ord |-> index])
    /\ UNCHANGED <<config_vars, cursor, stacks,
                   index, result, codec_vars, parse_vars, tag_vars, peer, loaded, visits>>

\* __next__ loops: the note is outside the index set.
SkipOutside ==
    /\ pc = "found"
    /\ ~in_index_set(index)
    /\ pc' = "next"
    /\ UNCHANGED <<config_vars, iter_vars, codec_vars, parse_vars, tag_vars, peer, loaded, visits>>

Next ==
    \/ Call \/ CapReached \/ EnterFind
    \/ Descend \/ ListError \/ Prune \/ BucketError
    \/ LeafAccept \/ LeafReject \/ LeafCorrupt
    \/ Ascend \/ Exhausted
    \/ Surface \/ SkipOutside

-----------------------------------------------------------------------------
(* The traversals checked: Init is the state NoteIterator.__init__ leaves, *)
(* over a filesystem in which every note sits where Note.realpath puts it, *)
(* for the configurations below.                                           *)

MaxNotes == 2

MaxIndexNotes == 3

MaxCount == 3

MaxFilters == 2

MaxRanges == 2

\* The longest list of attributes given to --tag-remove or --tag-assign.
MaxTags == 2

R1 == <<0, 1>>

R2 == <<0, 2>>

dA == Date(2019, 12, 31, 23, 59, 59, 999999)

dB == Date(2020, 1, 1, 3, 20, 0, 0)

dC == Date(2020, 1, 1, 5, 10, 0, 0)

dE == Date(2020, 2, 29, 0, 0, 0, 0)

SampleNotes ==
    <<Note(dB, R1, {TXT}), Note(dC, R1, {TXT}), Note(dC, R2, {TXT}),
      Note(dA, R1, {TXT}), Note(dE, R1, {TXT}), Note(dE, R2, {TXT})>>

\* A note given as a bound comes from Note.argparse and has no extensions.
Bound(date, rand) == Note(date, rand, {})

\* The arguments of --index tried, as argparse_range accepts them.
SampleRangeArgs ==
    { <<"1">>,
      <<"2", "-", "3">>,
      <<"1", "-", "3", ",", "2">>,
      <<"3", ",", "1">>,
      <<"0">>,
      <<"1", "-", "2", ",", "2", "-", "3">> }

Attr(key) == [key |-> key, value |-> None]

\* An identifier that matches the leaf pattern and does not decode: the
\* head of a note with a tail of 71 minutes, and a head of year 481067.
CorruptNames(note) ==
    { SubSeq(filename(note), 1, 9) \o <<"f", "f", "f", "f", "f", "f", "f", "f">> \o <<"-", "0", "0", "0", "0", "0", "0", "0", "1">> \o TXT,
      <<"f", "f", "f", "f", "f", "f", "f", "f">> \o SubSeq(filename(note), 9, 18) \o SubSeq(<<"-", "0", "0", "0", "0", "0", "0", "0", "1">>, 2, 9) \o TXT }

NoFilter ==
    [since |-> None, until |-> None, reverse |-> FALSE, index |-> None,
     count |-> None, select |-> {}, exclude |-> {}, junk_in |-> {},
     junk |-> {}, grep |-> None, meta |-> {}, text |-> {}]

\* Date ranges: up to MaxNotes notes at every cut depth, in both directions.
PruneConfigs ==
    { [NoFilter EXCEPT !.since = s, !.until = u, !.reverse = r] @@
      [cut |-> c, notes |-> ns] :
        c \in CutDepths, r \in BOOLEAN,
        s \in {None, Bound(dB, R1), Bound(dC, R2)},
        u \in {None, Bound(dB, R1), Bound(dC, R1)},
        ns \in { x \in SUBSET { SampleNotes[i] : i \in 1..5 } :
                     Cardinality(x) <= MaxNotes } }

\* Index windows and caps: the first n sample notes.
IndexConfigs ==
    { [NoFilter EXCEPT !.index = w, !.count = k, !.reverse = r] @@
      [cut |-> 1, notes |-> { SampleNotes[i] : i \in 1..n }] :
        n \in 0..MaxIndexNotes, r \in BOOLEAN,
        w \in {None} \cup { Some(a) : a \in SampleRangeArgs },
        k \in {None} \cup { Some(i) : i \in 0..MaxCount } }

\* Extension filters: a note with the files e, beside a .jpg note.
ExtConfigs ==
    { [NoFilter EXCEPT !.select = { Attr(k) : k \in sel },
                       !.exclude = { Attr(k) : k \in exc }] @@
      [cut |-> 2, notes |-> {Note(dB, R1, e), Note(dC, R1, {JPG})}] :
        e \in (SUBSET {TXT, JPG}) \ {{}},
        sel \in {{}, {TXT}, {PNG}, {TXT, JPG}},
        exc \in {{}, {JPG}, {TXT, JPG}} }

\* A string with its digits a-f in upper case.
UpperHex(str) ==
    [i \in 1..Len(str) |->
        IF str[i] \in HexLowerChars \ DecChars
        THEN HexUpper[HexVal(str[i]) + 1] ELSE str[i]]

\* The name of a year bucket, given to a regular file.
YEAR_FILE == <<"2", "0", "2", "1">>

JUNK == <<"j", "u", "n", "k">>

XX == <<"x", "x">>

\* Names no pattern of the layout matches, at cut depth c: a file and a
\* directory next to the first buckets, a directory next to the last ones,
\* and in a leaf directory a file with no identifier and one with no dot
\* before its extension.  The directories hold a well-named note file.
UnmatchedNames(c) ==
    LET note == SampleNotes[1]
        dir == [k \in 1..(c + 1) |->
                   IF k = 1 THEN NOTE_DIR
                   ELSE FmtDec(note.date[NOTE_CUT_LABEL[k - 1]], NOTE_CUT_FMT[k - 1])]
        txt == filename(SampleNotes[2]) \o TXT
    IN  { <<NOTE_DIR, JUNK>>,
          <<NOTE_DIR, XX, txt>>,
          dir \o <<JUNK \o TXT>>,
          dir \o <<filename(SampleNotes[2]) \o Tail(TXT)>>,
          dir \o <<XX, txt>> }

\* Entries that do not decode, a bucket no date has, a regular file where a
\* bucket is looked for, a note file named in upper case, and names no
\* pattern matches.
JunkConfigs ==
    { [NoFilter EXCEPT !.reverse = r, !.junk_in = {j}] @@
      [cut |-> c, notes |-> ns] :
        c \in {0, 2}, r \in BOOLEAN,
        ns \in SUBSET { SampleNotes[1], SampleNotes[5] },
        j \in { <<SampleNotes[2], x>> : x \in CorruptNames(SampleNotes[2]) } }
    \cup
    { [NoFilter EXCEPT !.reverse = r,
          !.junk = {<<NOTE_DIR, <<"2", "0", "2", "0">>, <<"1", "3">>, filename(SampleNotes[1]) \o TXT>>}]
      @@ [cut |-> 2, notes |-> {SampleNotes[5]}] : r \in BOOLEAN }
    \cup
    { [NoFilter EXCEPT !.reverse = r, !.junk = {<<NOTE_DIR, YEAR_FILE>>}]
      @@ [cut |-> 2, notes |-> {SampleNotes[5]}] : r \in BOOLEAN }
    \cup
    { [NoFilter EXCEPT !.reverse = r,
          !.junk_in = {<<SampleNotes[2], UpperHex(filename(SampleNotes[2])) \o TXT>>}]
      @@ [cut |-> c, notes |-> ns] :
        c \in {0, 2}, r \in BOOLEAN, ns \in SUBSET {SampleNotes[1]} }
    \cup
    { [NoFilter EXCEPT !.reverse = r, !.junk = UnmatchedNames(c)]
      @@ [cut |-> c, notes |-> ns] :
        c \in {0, 2}, r \in BOOLEAN,
        ns \in SUBSET { SampleNotes[1], SampleNotes[5] } }

\* The files of a configuration.
Files(c) ==
    UNION { { PathPlusExt(realpath(n), e) : e \in n.exts } : n \in c.notes }

TAG == <<"t", "a", "g">>

TODO == <<"t", "o", "d", "o">>

\* Attribute sets a record can hold: assign_attribute keeps the value of
\* the attribute, a string or None.
SampleStores ==
    { EmptyDict,
      [k \in {TAG} |-> None],
      [k \in {TAG} |-> Some(<<"x">>)],
      [k \in {TAG} |-> Some(<<"y">>)],
      [k \in {TAG, TODO} |-> IF k = TAG THEN Some(<<"x">>) ELSE None] }

\* Metadata filters: a key alone, a key with an empty value, a key with a
\* value.
SampleMetaFilters ==
    { [key |-> TAG, value |-> None],
      [key |-> TAG, value |-> Some(<<>>)],
      [key |-> TAG, value |-> Some(<<"x">>)],
      [key |-> TODO, value |-> None] }

\* Metadata filters: two notes, the record of the first drawn from
\* SampleStores, the second with no record or with a todo attribute.
MetaConfigs ==
    { [NoFilter EXCEPT !.select = sel, !.exclude = exc,
          !.meta = {[note |-> SampleNotes[1], attr |-> d]} \cup other]
      @@ [cut |-> 1, notes |-> {SampleNotes[1], SampleNotes[2]}] :
        sel \in { x \in SUBSET SampleMetaFilters : Cardinality(x) <= MaxFilters },
        exc \in { x \in SUBSET SampleMetaFilters : Cardinality(x) <= 1 },
        d \in SampleStores,
        other \in { {}, {[note |-> SampleNotes[2],
                          attr |-> [k \in {TODO} |-> None]]} } }

\* Metadata filters beside a date bound and an extension filter: three
\* notes with a tag record each, the first before the bound, the last with
\* no .txt file.
LazyConfigs ==
    { [NoFilter EXCEPT !.since = s, !.reverse = r,
          !.select = sel, !.exclude = exc,
          !.meta = { [note |-> n, attr |-> [k \in {TAG} |-> None]] :
                       n \in {SampleNotes[1], SampleNotes[2], Note(dC, R2, {JPG})} }]
      @@ [cut |-> 1,
          notes |-> {SampleNotes[1], SampleNotes[2], Note(dC, R2, {JPG})}] :
        s \in {None, Bound(dC, R1)}, r \in BOOLEAN,
        sel \in { {Attr(TXT)}, {[key |-> TAG, value |-> None]},
                  {[key |-> TAG, value |-> None], Attr(TXT)} },
        exc \in { {}, {[key |-> TODO, value |-> None]} } }

\* The text of a date-spec that gives the fields f, the first of them the
\* year.
SpecText(f) ==
    LET part(i) == IF i = 1 THEN FmtDec(f[1], 4)
                   ELSE IF i \in {2, 3} THEN DigitsOf(f[i], 10)
                   ELSE IF i = 7 THEN FmtDec(f[i], 6)
                   ELSE FmtDec(f[i], 2)
        text[i \in 1..Len(f)] ==
            IF i = 1 THEN part(1)
            ELSE text[i - 1] \o <<SEPARATOR[i]>> \o part(i)
    IN  text[Len(f)]

\* main: the positional note argument, given to Note.argparse for since and,
\* with round_up, for until.
note_argument(text, round_up) ==
    Note(argparse(text, round_up).date, argparse(text, round_up).rand, {})

\* An identifier as both bounds: the identifier of the second sample note,
\* in lower or upper case, over hierarchies that hold the note or not, beside
\* a note before it and a note of its timestamp; and over hierarchies that
\* hold the note in a file named in upper case.
IdentifierConfigs ==
    { [NoFilter EXCEPT !.reverse = r,
          !.since = note_argument(t, FALSE), !.until = note_argument(t, TRUE)]
      @@ [cut |-> c, notes |-> ns] :
        c \in {0, 2, 4}, r \in BOOLEAN,
        t \in { filename(SampleNotes[2]), UpperHex(filename(SampleNotes[2])) },
        ns \in SUBSET { SampleNotes[1], SampleNotes[2], SampleNotes[3] } }
    \cup
    { [NoFilter EXCEPT !.reverse = r,
          !.since = note_argument(t, FALSE), !.until = note_argument(t, TRUE),
          !.junk_in = {<<SampleNotes[2], UpperHex(filename(SampleNotes[2])) \o TXT>>}]
      @@ [cut |-> c, notes |-> ns] :
        c \in {0, 2}, r \in BOOLEAN,
        t \in { filename(SampleNotes[2]), UpperHex(filename(SampleNotes[2])) },
        ns \in SUBSET { SampleNotes[3] } }

\* --until with a date-spec: the year, the month and the day of the fourth
\* sample note, which is stamped at their last microsecond, over hierarchies
\* that hold it beside a note of the next day.
UntilSpecConfigs ==
    { [NoFilter EXCEPT !.reverse = r, !.until = note_argument(t, TRUE)]
      @@ [cut |-> c, notes |-> ns] :
        c \in {0, 2}, r \in BOOLEAN,
        t \in { SpecText(SubSeq(DateTuple(dA), 1, n)) : n \in 1..3 },
        ns \in SUBSET { SampleNotes[4], SampleNotes[1] } }

\* The pattern of --grep, a line it matches and a line it does not.
FOO == <<"f", "o", "o">>

MatchingLines == <<<<"b", "a", "r">>, <<"a", " ", "f", "o", "o", " ", "b">>>>

OtherLines == <<<<"b", "a", "r">>>>

\* Content filters: a note with the files e, those of m holding a matching
\* line, beside a .mw note and a .rst note of which the first matches.
GrepConfigs ==
    { [NoFilter EXCEPT !.grep = g, !.select = sel,
          !.text = { <<SampleNotes[1], x>> : x \in m \cap e }
                   \cup {<<SampleNotes[2], MW>>}]
      @@ [cut |-> 1, notes |-> {Note(dB, R1, e), Note(dC, R1, {MW}),
                                Note(dE, R1, {RST})}] :
        e \in (SUBSET {TXT, MD, JPG}) \ {{}},
        m \in SUBSET {TXT, MD, JPG},
        g \in {None, Some(<<>>), Some(FOO)},
        sel \in {{}, {Attr(TXT), Attr(MW)}} }

Configs ==
    PruneConfigs \cup IndexConfigs \cup ExtConfigs \cup JunkConfigs
    \cup MetaConfigs \cup LazyConfigs \cup IdentifierConfigs
    \cup UntilSpecConfigs \cup GrepConfigs

\* NoteIterator.__init__ for a configuration, over its hierarchy.
Construction ==
    \E c \in Configs :
        /\ NOTE_CUT = c.cut
        /\ fs = Files(c)
                \cup { dirname(j[1]) \o <<j[2]>> : j \in c.junk_in }
                \cup c.junk
        /\ c.index # None => argparse_range(c.index.some).status = "ok"
        /\ parse_attributes(c.select).status = "ok"
        /\ parse_attributes(c.exclude).status = "ok"
        /\ since = c.since /\ until = c.until /\ reverse = c.reverse
        /\ index_set = IF c.index = None THEN None
                       ELSE Some(argparse_range(c.index.some).ranges)
        /\ count = c.count
        /\ index_max = init_index_max(index_set, count)
        /\ select_extensions = parse_attributes(c.select).exts
        /\ exclude_extensions = parse_attributes(c.exclude).exts
        /\ select_attributes = parse_attributes(c.select).meta
        /\ exclude_attributes = parse_attributes(c.exclude).meta
        /\ grep = IF Truthy(c.grep) THEN c.grep ELSE None
        /\ meta = [p \in { realpath(m.note) : m \in c.meta } |->
                       (CHOOSE m \in c.meta : realpath(m.note) = p).attr]
        /\ contents = [f \in fs |->
                           IF f \in { PathPlusExt(realpath(t[1]), t[2]) : t \in c.text }
                           THEN MatchingLines ELSE OtherLines]
        /\ cursor = <<>>
        /\ stacks = <<<<NOTE_DIR>>>>
        /\ index = 0
        /\ pc = "idle" /\ result = None /\ yielded = <<>>
        /\ arg = None /\ nnid = <<>> /\ decoded = None
        /\ path = <<>> /\ from_path = None
        /\ input = None /\ output = None
        /\ IdleTagging

Init == Construction /\ Single

Spec == Init /\ [][Next]_vars

-----------------------------------------------------------------------------
(* Two NoteIterator objects made with the same arguments, their pull-next  *)
(* calls made in any order.  The model's variables hold the attributes of  *)
(* the object whose call runs, peer those of the object that waits.        *)

\* The attributes __init__ assigns to self, with the position of the caller
\* and what it was returned.
Self ==
    [since |-> since, until |-> until, reverse |-> reverse,
     index_set |-> index_set, index_max |-> index_max, grep |-> grep,
     select_extensions |-> select_extensions,
     exclude_extensions |-> exclude_extensions,
     select_attributes |-> select_attributes,
     exclude_attributes |-> exclude_attributes,
     cursor |-> cursor, stacks |-> stacks, index |-> index,
     pc |-> pc, result |-> result, yielded |-> yielded]

\* The object that runs changes; the ordinal is an attribute of the class
\* and stays.
SwitchSharedIndex ==
    /\ pc \in {"idle", "stopped", "error"}
    /\ peer # None
    /\ peer' = Self
    /\ since' = peer.since /\ until' = peer.until /\ reverse' = peer.reverse
    /\ index_set' = peer.index_set /\ index_max' = peer.index_max
    /\ grep' = peer.grep
    /\ select_extensions' = peer.select_extensions
    /\ exclude_extensions' = peer.exclude_extensions
    /\ select_attributes' = peer.select_attributes
    /\ exclude_attributes' = peer.exclude_attributes
    /\ cursor' = peer.cursor /\ stacks' = peer.stacks
    /\ pc' = peer.pc /\ result' = peer.result /\ yielded' = peer.yielded
    /\ UNCHANGED <<NOTE_CUT, fs, count, meta, contents, index, codec_vars,
                   parse_vars, tag_vars, loaded, visits>>

\* Between two calls the caller turns to the other object: every attribute
\* is the object's own.
Switch ==
    /\ pc \in {"idle", "stopped", "error"}
    /\ peer # None
    /\ peer' = Self
    /\ since' = peer.since /\ until' = peer.until /\ reverse' = peer.reverse
    /\ index_set' = peer.index_set /\ index_max' = peer.index_max
    /\ grep' = peer.grep
    /\ select_extensions' = peer.select_extensions
    /\ exclude_extensions' = peer.exclude_extensions
    /\ select_attributes' = peer.select_attributes
    /\ exclude_attributes' = peer.exclude_attributes
    /\ cursor' = peer.cursor /\ stacks' = peer.stacks /\ index' = peer.index
    /\ pc' = peer.pc /\ result' = peer.result /\ yielded' = peer.yielded
    /\ UNCHANGED <<NOTE_CUT, fs, count, meta, contents, codec_vars,
                   parse_vars, tag_vars, loaded, visits>>

InitPair == Construction /\ peer = Self /\ loaded = {} /\ visits = NoVisit

NextPair == Next \/ Switch

SpecPair == InitPair /\ [][NextPair]_vars

-----------------------------------------------------------------------------
(* The traversal while another process removes directories of notes.       *)

\* The directories of the tree, the root included.
Directories == UNION { { SubSeq(f, 1, n) : n \in 1..(Len(f) - 1) } : f \in fs }

\* A directory is removed with all it holds.  Only find_note reads the
\* tree, so a removal at any other time is seen as one made when find_note
\* next runs.
Vanish ==
    /\ pc = "find"
    /\ \E p \in Directories : fs' = { f \in fs : ~IsPrefix(p, f) }
    /\ UNCHANGED <<NOTE_CUT, since, until, reverse, index_set, index_max,
                   count, select_extensions, exclude_extensions,
                   select_attributes, exclude_attributes, grep, meta,
                   contents, iter_vars, pc, codec_vars, parse_vars, tag_vars, peer, loaded, visits>>

\* No file is opened for its contents: with a pattern to look for, a file
\* removed after its directory was listed could not be opened.
InitVanish == Init /\ grep = None

NextVanish == Next \/ Vanish

SpecVanish == InitVanish /\ [][NextVanish]_vars

-----------------------------------------------------------------------------
(* The parsers on their own: a function and its argument are drawn, the    *)
(* function is applied and what it returns or raises is kept.              *)

\* A call: the function and the record of its arguments.
Applied(fn, a) == [fn |-> fn, arg |-> a]

\* The identifier of a note, and strings that differ from it by a
\* character, a group, the case or the newline a line read from a file
\* ends with.
\* An identifier whose fields are known.
FIXTURE ==
    <<"0", "0", "0", "1", "a", "2", "b", "3", "-",
      "0", "0", "0", "4", "c", "5", "d", "6", "-",
      "d", "e", "a", "d", "b", "e", "e", "f">>

SampleTexts ==
    LET good == nnid_encode(Note(dC, <<43981, 61185>>, {}))
    IN  { good,
          FIXTURE,
          good \o <<"\n">>,
          good \o <<"\n", "\n">>,
          good \o <<" ">>,
          <<" ">> \o good,
          good \o <<"0">>,
          ButLast(good),
          <<"g">> \o Tail(good),
          SubSeq(good, 1, 8) \o SubSeq(good, 10, 26),
          SubSeq(good, 1, 17),
          good \o SubSeq(good, 9, 17),
          [i \in 1..26 |-> IF good[i] = "-" THEN "_" ELSE good[i]],
          [i \in 1..26 |-> IF good[i] \in HexChars
                            THEN HexUpper[HexVal(good[i]) + 1] ELSE good[i]],
          SubSeq(good, 1, 7) \o <<"-">> \o SubSeq(good, 8, 8) \o SubSeq(good, 10, 26),
          <<>> }

\* Filters as NoteAttribute.decode gives them: a key, and a value that is
\* None, empty or a string.
SampleFilters ==
    { [key |-> k, value |-> v] :
        k \in { TXT, JPG, <<"t", "a", "g">>, <<"t", "o", "d", "o">> },
        v \in { None, Some(<<>>), Some(<<"x">>) } }

\* The text of a list of ranges: 'a' for (a, a), 'a-b' for (a, b), the
\* items joined by commas.
ItemText(pair) ==
    IF pair[1] = pair[2] THEN DigitsOf(pair[1], 10)
    ELSE DigitsOf(pair[1], 10) \o <<"-">> \o DigitsOf(pair[2], 10)

RECURSIVE RangeText(_)
RangeText(items) ==
    IF Len(items) = 1 THEN ItemText(items[1])
    ELSE ItemText(items[1]) \o <<",">> \o RangeText(Tail(items))

\* Lists of up to MaxRanges ranges (a, b) with a <= b, of one and of two
\* digits.
SampleRanges ==
    LET pairs == { <<a, b>> \in {0, 2, 9, 10} \X {0, 2, 9, 10} : a <= b }
    IN  UNION { [1..n -> pairs] : n \in 1..MaxRanges }

\* Lists of up to MaxRanges items that hold an item 'a-b' with a > b.
InvertedRanges ==
    LET pairs == {0, 2, 9, 10} \X {0, 2, 9, 10}
    IN  { items \in UNION { [1..n -> pairs] : n \in 1..MaxRanges } :
            \E i \in 1..Len(items) : items[i][1] > items[i][2] }

\* Date-specs: the fields of a date down to every unit, at the ends of
\* months, of years and of the years datetime has.
SampleSpecs ==
    LET full == { f \in {1, 2020, 9999} \X {1, 2, 12} \X {1, 29, 31}
                        \X {0, 23} \X {0, 59} \X {0, 59} \X {0, 999999} :
                    f[3] <= DaysInMonth(f[1], f[2]) }
    IN  { SubSeq(f, 1, n) : f \in full, n \in 1..7 }

\* Date-specs the grammar accepts and no calendar has: a month 0 or 13, a
\* day 0, 32 or past the end of its month, an hour 24 or 25, a minute or a
\* second 60.
UnrealSpecs ==
    LET full == {2020, 2021} \X {0, 2, 4, 13} \X {0, 29, 31, 32}
                    \X {0, 24, 25} \X {0, 60} \X {0, 60}
        at(f, i, missing) == IF i <= Len(f) THEN f[i] ELSE missing
    IN  { s \in { SubSeq(f, 1, n) : f \in full, n \in 2..6 } :
            ~ValidDate(Date(s[1], at(s, 2, 1), at(s, 3, 1), at(s, 4, 0),
                            at(s, 5, 0), at(s, 6, 0), 0)) }

ParseInputs ==
    { Applied("nnid_decode", [text |-> t]) : t \in SampleTexts }
    \cup
    { Applied("argparse", [text |-> SpecText(f), fields |-> f, round_up |-> r]) :
        f \in SampleSpecs \cup UnrealSpecs, r \in BOOLEAN }
    \cup
    { Applied("argparse_range", [text |-> RangeText(items), items |-> items]) :
        items \in SampleRanges \cup InvertedRanges }
    \cup
    { Applied("__init__", [select |-> sel, exclude |-> exc]) :
        sel \in { x \in SUBSET SampleFilters : Cardinality(x) <= MaxFilters },
        exc \in { x \in SUBSET SampleFilters : Cardinality(x) <= 1 } }

InitParse ==
    /\ NOTE_CUT = 2
    /\ input \in ParseInputs
    /\ output = None
    /\ pc = "parse"
    /\ arg = None /\ nnid = <<>> /\ decoded = None
    /\ path = <<>> /\ from_path = None
    /\ IdleIterator /\ IdleTagging /\ Single

\* Note.nnid_decode on a string a caller gives.
DecodeText ==
    /\ pc = "parse" /\ output = None
    /\ input.fn = "nnid_decode"
    /\ output' = nnid_decode(input.arg.text)
    /\ UNCHANGED <<config_vars, iter_vars, codec_vars, tag_vars, peer, loaded, visits, pc, input>>

\* NoteIterator.__init__ on a select list and an exclude list.
Construct ==
    /\ pc = "parse" /\ output = None
    /\ input.fn = "__init__"
    /\ output' = init_filters(input.arg.select, input.arg.exclude)
    /\ UNCHANGED <<config_vars, iter_vars, codec_vars, tag_vars, peer, loaded, visits, pc, input>>

\* NoteIterator.argparse_range on the text of --index.
ArgparseRange ==
    /\ pc = "parse" /\ output = None
    /\ input.fn = "argparse_range"
    /\ output' = argparse_range(input.arg.text)
    /\ UNCHANGED <<config_vars, iter_vars, codec_vars, tag_vars, peer, loaded, visits, pc, input>>

\* Note.argparse on the text of --since (round_up False) or --until.
Argparse ==
    /\ pc = "parse" /\ output = None
    /\ input.fn = "argparse"
    /\ output' = argparse(input.arg.text, input.arg.round_up)
    /\ UNCHANGED <<config_vars, iter_vars, codec_vars, tag_vars, peer, loaded, visits, pc, input>>

NextParse ==
    \/ DecodeText
    \/ Argparse
    \/ ArgparseRange
    \/ Construct

SpecParse == InitParse /\ [][NextParse]_vars

-----------------------------------------------------------------------------
(* Tagging: the body main runs for a note the traversal returns when       *)
(* --tag-remove or --tag-assign is given.                                  *)

\* The sequences over a set with no more than n elements.
SeqsUpTo(set, n) == UNION { [1..k -> set] : k \in 0..n }

\* What NoteAttribute.decode gives --tag-remove and --tag-assign: the
\* metadata attributes, and the attribute of an extension.
TagArguments == SampleMetaFilters \cup {Attr(TXT)}

InitTag ==
    /\ NOTE_CUT = 1
    /\ arg = SampleNotes[1]
    /\ tag_remove \in SeqsUpTo(TagArguments, MaxTags)
    /\ tag_assign \in SeqsUpTo(TagArguments, MaxTags)
    /\ tag_remove # <<>> \/ tag_assign # <<>>
    /\ note_meta = None
    /\ pending = tag_remove
    /\ pc = "remove"
    /\ fs = { PathPlusExt(realpath(arg), e) : e \in arg.exts }
    /\ \E store \in SampleStores, recorded \in BOOLEAN :
          meta = IF recorded THEN [p \in {realpath(arg)} |-> store]
                 ELSE EmptyDict
    /\ contents = [f \in fs |-> OtherLines]
    /\ since = None /\ until = None /\ reverse = FALSE
    /\ index_set = None /\ index_max = None /\ count = None
    /\ select_extensions = {} /\ exclude_extensions = {}
    /\ select_attributes = {} /\ exclude_attributes = {}
    /\ grep = None
    /\ cursor = <<>> /\ stacks = <<<<NOTE_DIR>>>> /\ index = 0
    /\ result = None /\ yielded = <<>>
    /\ nnid = <<>> /\ decoded = None /\ path = <<>> /\ from_path = None
    /\ input = None /\ output = None
    /\ Single

\* What tagging leaves alone: everything but the records, the loaded
\* metadata and the position in the loops.
tag_frame ==
    <<NOTE_CUT, fs, since, until, reverse, index_set, index_max, count,
      select_extensions, exclude_extensions, select_attributes,
      exclude_attributes, grep, contents, iter_vars, codec_vars, parse_vars,
      tag_remove, tag_assign, peer, loaded, visits>>

\* The property Note.meta: the metadata of the note, loaded from its record
\* at the first use.
Meta ==
    IF note_meta = None
    THEN [filename |-> realpath(arg), attr |-> load(meta, realpath(arg))]
    ELSE note_meta

\* note.meta.remove_attribute(attr) for the next attr of args.tag_remove.
RemoveAttribute ==
    /\ pc = "remove" /\ pending # <<>>
    /\ note_meta' = [Meta EXCEPT !.attr = remove_attribute(@, Head(pending))]
    /\ pending' = Tail(pending)
    /\ UNCHANGED <<tag_frame, meta, pc>>

\* args.tag_remove is empty or its loop is over.
RemoveDone ==
    /\ pc = "remove" /\ pending = <<>>
    /\ pc' = "assign"
    /\ pending' = tag_assign
    /\ UNCHANGED <<tag_frame, meta, note_meta>>

\* note.meta.assign_attribute(attr) for the next attr of args.tag_assign.
AssignAttribute ==
    /\ pc = "assign" /\ pending # <<>>
    /\ note_meta' = [Meta EXCEPT !.attr = assign_attribute(@, Head(pending))]
    /\ pending' = Tail(pending)
    /\ UNCHANGED <<tag_frame, meta, pc>>

\* args.tag_assign is empty or its loop is over.
AssignDone ==
    /\ pc = "assign" /\ pending = <<>>
    /\ pc' = "save"
    /\ UNCHANGED <<tag_frame, meta, note_meta, pending>>

\* note.meta.save()
Save ==
    /\ pc = "save"
    /\ note_meta' = Meta
    /\ meta' = save(meta, Meta.filename, Meta.attr)
    /\ pc' = "saved"
    /\ UNCHANGED <<tag_frame, pending>>

NextTag ==
    \/ RemoveAttribute
    \/ RemoveDone
    \/ AssignAttribute
    \/ AssignDone
    \/ Save

SpecTag == InitTag /\ [][NextTag]_vars

-----------------------------------------------------------------------------
(* Properties of the codec, checked under SpecCodec.                       *)

\* C1: decoding the identifier nnid_encode gives for a note returns exactly
\* the note's timestamp and nonce.
C1_CodecRoundTrip ==
    (pc = "codec" /\ decoded # None) =>
        /\ decoded.status = "ok"
        /\ decoded.date = arg.date
        /\ decoded.rand = arg.rand

\* An identifier of the last microsecond of year 9999 with the largest nonce
\* has been encoded and decoded.
C1_Witness ==
    /\ pc = "codec" /\ decoded # None
    /\ arg.date = Date(9999, 12, 31, 23, 59, 59, 999999)
    /\ arg.rand = <<65535, 65535>>
    /\ Len(nnid) = 26

\* C8: mapping the path of a note (realpath plus extension) back with
\* absolute_path_to_note gives a note with the same timestamp and nonce,
\* whatever the cut depth.
C8_PathRoundTrip ==
    (pc = "codec" /\ from_path # None) =>
        /\ from_path.status = "ok"
        /\ from_path.date = arg.date
        /\ from_path.rand = arg.rand

\* C9: the directory of a note is the root followed by exactly the first
\* NOTE_CUT of its year, month, day and hour, as zero-padded decimals of
\* widths 4, 2, 2 and 2.
C9_DirnameBuckets ==
    (pc = "codec" /\ path # <<>>) =>
        /\ Len(path) = NOTE_CUT + 2
        /\ path[1] = NOTE_DIR
        /\ \A level \in 1..NOTE_CUT :
              /\ IsDigits(path[level + 1], <<4, 2, 2, 2>>[level])
              /\ ParseDec(path[level + 1]) =
                     arg.date[<<"year", "month", "day", "hour">>[level]]

-----------------------------------------------------------------------------
(* Properties of the traversal, checked under Spec.                        *)

\* The (timestamp, nonce) of a note.
Key(note) == <<note.date, note.rand>>

\* (timestamp, nonce) compared lexicographically.
KeyLess(a, b) ==
    DateLess(a[1], b[1]) \/ (a[1] = b[1] /\ WideLess(a[2], b[2]))

KeyLeq(a, b) == a = b \/ KeyLess(a, b)

YieldedKeys == { Key(yielded[i]) : i \in 1..Len(yielded) }

YieldedOrds == { yielded[i].ord : i \in 1..Len(yielded) }

\* The files of the leaf level whose name matches the leaf pattern.
LeafFiles == { q \in fs : Len(q) = NOTE_CUT + 2 /\ LeafMatch(Last(q)) }

\* The extensions of the files of one identifier in one directory.
ExtsOf(dir, id) ==
    { LeafExt(Last(q)) :
        q \in { f \in LeafFiles : ButLast(f) = dir /\ LeafNnid(Last(f)) = id } }

\* Every leaf of the hierarchy, decoded: the notes it holds.
LeafNotes ==
    { Note(nnid_decode(LeafNnid(Last(q))).date,
           nnid_decode(LeafNnid(Last(q))).rand,
           ExtsOf(ButLast(q), LeafNnid(Last(q)))) :
        q \in { f \in LeafFiles : nnid_decode(LeafNnid(Last(f))).status = "ok" } }

\* The notes of the hierarchy that pass valid_note.
PassingKeys == { Key(n) : n \in { m \in LeafNotes : valid_note(m) } }

\* Every file of the hierarchy is a note file in the directory Note.dirname
\* gives for its timestamp.
WellPlaced ==
    \A q \in fs :
        /\ Len(q) = NOTE_CUT + 2
        /\ LeafMatch(Last(q))
        /\ nnid_decode(LeafNnid(Last(q))).status = "ok"
        /\ ButLast(q) = dirname(Note(nnid_decode(LeafNnid(Last(q))).date,
                                     nnid_decode(LeafNnid(Last(q))).rand, {}))

NoWindow == index_set = None /\ count = None

\* C2: a complete traversal with a since/until pair yields exactly the notes
\* of the hierarchy that pass valid_note: pruning loses no valid leaf.
C2_PruningCorrectness ==
    (pc = "stopped" /\ WellPlaced /\ NoWindow) => YieldedKeys = PassingKeys

\* C3: successive yielded notes have non-decreasing (timestamp, nonce) when
\* reverse is false and non-increasing (timestamp, nonce) when it is true.
C3_MonotonicOrdering ==
    WellPlaced =>
        \A i \in 1..(Len(yielded) - 1) :
            IF reverse
            THEN KeyLeq(Key(yielded[i + 1]), Key(yielded[i]))
            ELSE KeyLeq(Key(yielded[i]), Key(yielded[i + 1]))

\* Ordinal k lies in at least one declared range, or no window is set.
InDeclaredRange(k) ==
    IF index_set = None THEN TRUE
    ELSE \E i \in 1..Len(index_set.some) :
             index_set.some[i][1] <= k /\ k <= index_set.some[i][2]

\* C4: with no count cap, a filter-passing note with ordinal k is yielded
\* iff k lies in at least one range of the window; with the window unset
\* every filter-passing note is yielded.
C4_IndexWindowMembership ==
    (pc = "stopped" /\ WellPlaced /\ count = None
        /\ since = None /\ until = None) =>
        YieldedOrds = { k \in 1..Cardinality(PassingKeys) : InDeclaredRange(k) }

\* C5: with a window and a cap c, every yielded ordinal lies in a declared
\* range and is <= c, and a complete traversal yields exactly
\* min(|ordinals of 1..N in a declared range|, c) notes.
C5_IndexWindowCap ==
    (WellPlaced /\ index_set # None /\ count # None
        /\ since = None /\ until = None) =>
        /\ \A k \in YieldedOrds : InDeclaredRange(k) /\ k <= count.some
        /\ pc = "stopped" =>
              Len(yielded) =
                  Min(Cardinality({ k \in 1..Cardinality(PassingKeys) :
                                        InDeclaredRange(k) }),
                      count.some)

\* The bound b admits the note: (timestamp, nonce) compared as a pair.
SinceAdmits(b, note) == b = None \/ KeyLeq(Key(b), Key(note))

UntilAdmits(b, note) == b = None \/ KeyLeq(Key(note), Key(b))

\* C6: a note is admitted only if its (timestamp, nonce) is >= that of since
\* and <= that of until, compared lexicographically; of two notes with the
\* same timestamp and nonces 1 and 2, a since bound of that timestamp with
\* nonce 2 admits only the note with nonce 2.
C6_RangeBoundsTieBreak ==
    /\ \A i \in 1..Len(yielded) :
           SinceAdmits(since, yielded[i]) /\ UntilAdmits(until, yielded[i])
    /\ (pc = "stopped" /\ since = Bound(dC, R2) /\ until = None
            /\ {<<dC, R1>>, <<dC, R2>>} \subseteq { Key(n) : n \in LeafNotes }) =>
           /\ <<dC, R2>> \in YieldedKeys
           /\ <<dC, R1>> \notin YieldedKeys

\* Both notes of the same timestamp are in the hierarchy, the since bound
\* has the nonce of the second, and the traversal ended with the second.
C6_Witness ==
    /\ pc = "stopped" /\ since = Bound(dC, R2) /\ until = None
    /\ {<<dC, R1>>, <<dC, R2>>} \subseteq { Key(n) : n \in LeafNotes }
    /\ YieldedKeys = {<<dC, R2>>}

\* The extension sets selected and excluded.
S == select_extensions

X == exclude_extensions

\* (E intersect S if S is non-empty, else E) minus X.
Narrowed(E) == (IF S # {} THEN E \cap S ELSE E) \ X

\* C7: a yielded note's extension set is (E intersect S if S is non-empty,
\* else E) minus X, E being the extensions of its files, and with no other
\* filter a note is left out iff that set is empty.
C7_ExtensionNarrowing ==
    WellPlaced =>
        /\ \A i \in 1..Len(yielded) :
               yielded[i].exts =
                   Narrowed(ExtsOf(dirname(yielded[i]),
                                   nnid_encode(yielded[i])))
        /\ (pc = "stopped" /\ NoWindow /\ since = None /\ until = None
                /\ select_attributes = {} /\ exclude_attributes = {}
                /\ grep = None) =>
               YieldedKeys =
                   { Key(n) : n \in { m \in LeafNotes : Narrowed(m.exts) # {} } }

\* A note of {.txt, .jpg} is yielded as {.txt} under the selection of .txt
\* and the exclusion of .jpg, and a .jpg note beside it is left out.
C7_Witness ==
    /\ pc = "stopped" /\ WellPlaced
    /\ S = {TXT} /\ X = {JPG}
    /\ \E n \in LeafNotes : n.exts = {TXT, JPG}
    /\ \E n \in LeafNotes : n.exts = {JPG}
    /\ Len(yielded) = 1 /\ yielded[1].exts = {TXT}

\* C10: an entry that matches the leaf pattern and does not decode does not
\* end the walk: once the traversal is over, every note of the hierarchy
\* that decodes and passes the filters has been yielded.
C10_CorruptEntriesSkipped ==
    (/\ pc \in {"stopped", "error"}
     /\ NoWindow /\ since = None /\ until = None
     /\ pc = "error" => result.in = "nnid_decode") =>
        PassingKeys \subseteq YieldedKeys

\* C11: in every state of a NoteIterator, between the steps of find_note and
\* after a pull-next call has returned, ended the iteration or failed,
\* len(stacks) = len(cursor) + 1.
C11_CursorStackInvariant == Len(stacks) = Len(cursor) + 1

\* The largest ordinal the window declares.
WindowMax ==
    CHOOSE m \in { index_set.some[i][2] : i \in 1..Len(index_set.some) } :
        \A i \in 1..Len(index_set.some) : index_set.some[i][2] <= m

\* The effective upper bound of the ordinal: the count cap, or the upper
\* bound of the window when that is smaller; None when there is neither.
CapBound ==
    IF index_set = None THEN count
    ELSE IF count = None THEN Some(WindowMax)
    ELSE Some(Min(count.some, WindowMax))

\* The ordinal has reached the effective upper bound and __next__ is entered.
AtCapBound ==
    IF CapBound = None THEN FALSE ELSE pc = "next" /\ index = CapBound.some

\* C12: once the ordinal equals the effective upper bound, a pull-next call
\* ends the iteration and leaves cursor, stacks and ordinal unchanged.
C12_CapShortCircuit ==
    [][AtCapBound => (pc' = "stopped" /\ UNCHANGED <<cursor, stacks, index>>)]_vars

\* The attributes of the store of a note.
StoreOf(note) == load(meta, realpath(note))

\* The store holds the key of the filter and, when the filter has a value,
\* holds that value under the key.
Matches(store, f) ==
    /\ f.key \in DOMAIN store
    /\ (f.value # None /\ f.value.some # <<>>) => store[f.key] = f.value

\* The metadata select set is empty or a select filter matches, and no
\* metadata exclude filter matches.
AttributeCheck(note) ==
    /\ select_attributes = {}
          \/ \E f \in select_attributes : Matches(StoreOf(note), f)
    /\ \A f \in exclude_attributes : ~Matches(StoreOf(note), f)

\* C15: a note that passes the date and extension checks passes the
\* attribute check, and is yielded by a traversal with no date bound and no
\* pattern, iff the metadata select set is empty or a select filter matches
\* its store, and no metadata exclude filter matches its store.
C15_MetadataFilters ==
    (pc = "stopped" /\ WellPlaced /\ NoWindow /\ grep = None
        /\ since = None /\ until = None) =>
        YieldedKeys =
            { Key(n) : n \in { m \in LeafNotes :
                                 Narrowed(m.exts) # {} /\ AttributeCheck(m) } }

\* Two select filters of which the store of a yielded note matches exactly
\* one, an exclude filter, and a note the filters left out.
C15_Witness ==
    /\ pc = "stopped" /\ WellPlaced /\ NoWindow /\ grep = None
    /\ Cardinality(select_attributes) = 2
    /\ exclude_attributes # {}
    /\ \E i \in 1..Len(yielded) :
           Cardinality({ f \in select_attributes :
                             Matches(StoreOf(yielded[i]), f) }) = 1
    /\ \E n \in LeafNotes : Key(n) \notin YieldedKeys

\* The text-bearing extensions: plain text, reStructuredText, Markdown and
\* MediaWiki.
TextBearing == {TXT, RST, MD, MW}

\* No pattern is set, or a file of the note with a text-bearing extension
\* holds a line in which the pattern occurs.
ContentCheck(note) ==
    IF grep = None THEN TRUE
    ELSE \E ext \in Narrowed(note.exts) \cap TextBearing :
             LET lines == contents[PathPlusExt(realpath(note), ext)]
             IN  \E k \in 1..Len(lines) :
                     \E i \in 1..Len(lines[k]) : \E j \in i..Len(lines[k]) :
                         SubSeq(lines[k], i, j) = grep.some

\* C16: with a pattern set, a note passes iff one of its files with a
\* text-bearing extension (.txt, .rst, .md, .mw) holds a line matching the
\* pattern; with no pattern set every note passes.
C16_ContentFilter ==
    (pc = "stopped" /\ WellPlaced /\ NoWindow /\ since = None /\ until = None
        /\ select_attributes = {} /\ exclude_attributes = {}) =>
        YieldedKeys =
            { Key(n) : n \in { m \in LeafNotes :
                                 Narrowed(m.exts) # {} /\ ContentCheck(m) } }

-----------------------------------------------------------------------------
(* Properties of the parsers, checked under SpecParse.                     *)

\* Exactly three dash-separated groups of exactly 8 hexadecimal digits.
ThreeHexGroups(str) ==
    /\ Len(Split(str, "-")) = 3
    /\ \A i \in 1..3 :
          /\ Len(Split(str, "-")[i]) = 8
          /\ \A k \in 1..8 : Split(str, "-")[i][k] \in HexChars

\* C13: nnid_decode fails with ArgumentTypeError, and returns no (timestamp,
\* nonce), for every string that is not exactly three dash-separated groups
\* of exactly 8 hexadecimal digits.
C13_MalformedRejected ==
    (pc = "parse" /\ output # None /\ input.fn = "nnid_decode"
        /\ ~ThreeHexGroups(input.arg.text)) =>
        output.status = "ArgumentTypeError"

\* The key of a filter starts with '.'.
DotKey(attr) == Len(attr.key) > 0 /\ attr.key[1] = "."

\* The filter carries a value.
Valued(attr) == attr.value # None /\ attr.value.some # <<>>

\* C14: construction splits the select list and the exclude list into
\* extension filters (keys starting with '.') and metadata filters (all
\* other keys), disjoint and covering the input; a '.'-key that carries a
\* value makes construction fail with ArgumentTypeError.
C14_FilterClassification ==
    (pc = "parse" /\ output # None /\ input.fn = "__init__") =>
        LET sel == input.arg.select
            exc == input.arg.exclude
        IN  IF \E a \in sel \cup exc : DotKey(a) /\ Valued(a)
            THEN output.status = "ArgumentTypeError"
            ELSE /\ output.status = "ok"
                 /\ output.select_extensions = { a.key : a \in { b \in sel : DotKey(b) } }
                 /\ output.select_attributes = { a \in sel : ~DotKey(a) }
                 /\ output.exclude_extensions = { a.key : a \in { b \in exc : DotKey(b) } }
                 /\ output.exclude_attributes = { a \in exc : ~DotKey(a) }

\* How many times a pair occurs in a list of pairs.
Occurrences(pair, pairs) == Cardinality({ i \in 1..Len(pairs) : pairs[i] = pair })

\* C17: for non-negative a <= b, argparse_range accepts 'a-b' as (a, b) and
\* 'a' as (a, a), and returns the ranges of a comma-separated list of such
\* items sorted ascending by (min, max).
C17_RangeParsing ==
    (pc = "parse" /\ output # None /\ input.fn = "argparse_range"
        /\ input.arg.items \in SampleRanges) =>
        /\ output.status = "ok"
        /\ Len(output.ranges) = Len(input.arg.items)
        /\ \A i \in 1..Len(input.arg.items) :
               Occurrences(input.arg.items[i], output.ranges)
                   = Occurrences(input.arg.items[i], input.arg.items)
        /\ \A i \in 1..(Len(output.ranges) - 1) :
               \/ output.ranges[i][1] < output.ranges[i + 1][1]
               \/ /\ output.ranges[i][1] = output.ranges[i + 1][1]
                  /\ output.ranges[i][2] <= output.ranges[i + 1][2]

\* The field of a date-spec at a level, or the given value when the spec
\* stops before it.
Given(f, i, missing) == IF i <= Len(f) THEN f[i] ELSE missing

\* The first and the last instant of the period a date-spec names.
FirstInstant(f) ==
    Date(f[1], Given(f, 2, 1), Given(f, 3, 1), Given(f, 4, 0), Given(f, 5, 0),
         Given(f, 6, 0), Given(f, 7, 0))

LastInstant(f) ==
    Date(f[1], Given(f, 2, 12),
         Given(f, 3, DaysInMonth(f[1], Given(f, 2, 12))),
         Given(f, 4, 23), Given(f, 5, 59), Given(f, 6, 59),
         Given(f, 7, 999999))

\* C18: for a date-spec that gives fields down to a unit, Note.argparse
\* returns the first instant of the named period with round_up False and
\* the start of the next period of that unit minus one microsecond with
\* round_up True; a spec with microseconds is returned unchanged.
C18_DateSpecRounding ==
    (/\ pc = "parse" /\ output # None /\ input.fn = "argparse"
     /\ input.arg.fields \in SampleSpecs) =>
        /\ output.status = "ok"
        /\ output.date = IF input.arg.round_up
                         THEN LastInstant(input.arg.fields)
                         ELSE FirstInstant(input.arg.fields)

\* C19: when the attributes loaded from a record that held some have all
\* been removed, save() deletes the record, so that metadata loaded for the
\* note afterwards has no attributes.
C19_EmptyStoreDeleted ==
    [][(/\ pc = "save" /\ pc' = "saved"
        /\ load(meta, realpath(arg)) # EmptyDict
        /\ Meta.attr = EmptyDict)
       => (/\ realpath(arg) \notin DOMAIN meta'
           /\ load(meta', realpath(arg)) = EmptyDict)]_vars

\* The name find_note is about to descend into passes the cursor checks and
\* names nothing on disk any more.
AtMissingDirectory ==
    /\ pc = "find" /\ ~max_depth(stacks) /\ Top(stacks) # <<>>
    /\ ValidDate(cursor_date(Append(cursor, Last(Top(stacks)))))
    /\ valid_cursor(Append(cursor, Last(Top(stacks))))
    /\ Append(cursor, Last(Top(stacks))) \notin fs
    /\ ~DirExists(Append(cursor, Last(Top(stacks))))

\* The top level is empty below the root.
AtEmptyLevel == pc = "find" /\ cursor # <<>> /\ Top(stacks) = <<>>

\* C20: a step of the engine at a directory that does not exist, the root
\* included, pushes an empty level and raises nothing; a step at an empty
\* level ascends from it, back to the remaining siblings; and no traversal
\* ends with FileNotFoundError.
C20_MissingDirectory ==
    /\ [][(AtMissingDirectory /\ fs' = fs /\ stacks' # stacks)
          => (/\ cursor' = Append(cursor, Last(Top(stacks)))
              /\ stacks' = Append(PopTop(stacks), <<>>)
              /\ pc' = "find" /\ result' = result)]_vars
    /\ [][(AtEmptyLevel /\ fs' = fs /\ stacks' # stacks)
          => (/\ cursor' = ButLast(cursor)
              /\ stacks' = ButLast(stacks)
              /\ pc' = "find" /\ result' = result)]_vars
    /\ [](pc = "error" => result.raised # "FileNotFoundError")

\* A bucket that was listed by its parent is gone when the engine descends
\* into it: an empty level is on top, and siblings remain below it.
C20_Witness ==
    /\ pc = "find" /\ Len(cursor) >= 2 /\ Top(stacks) = <<>>
    /\ cursor \notin fs /\ ~DirExists(cursor)
    /\ stacks[Len(stacks) - 1] # <<>>

\* The conditions under which the iteration is to end: nothing is left to
\* visit, or the ordinal has reached the effective upper bound.
EndReached ==
    \/ cursor = <<>> /\ Top(stacks) = <<>>
    \/ IF CapBound = None THEN FALSE ELSE index >= CapBound.some

\* What is left to visit, as a number: an entry of a level weighs more than
\* all the entries a directory can hold one level down, and every level
\* counts for one.
Width == Cardinality(fs) + 2

RECURSIVE Weight(_)
Weight(k) ==
    IF k = 0 THEN 0
    ELSE Len(stacks[k]) * Width ^ (NOTE_CUT + 3 - k) + 1 + Weight(k - 1)

Measure == Weight(Len(stacks))

\* C21: every step of find_note but its return of None leaves strictly less
\* to visit and no other
\* step leaves more, so that every call returns after finitely many pops and
\* the calls of a caller come to an end; the iteration ends only when the
\* cursor is empty with the root level exhausted or the ordinal has reached
\* the upper bound of the window or the cap, and no note is found past that
\* bound.
C21_TraversalTermination ==
    /\ [][(pc = "find" /\ pc' # "stopped") => Measure' < Measure]_vars
    /\ [][Measure' <= Measure]_vars
    /\ [](pc \in {"stopped", "error"} => EndReached)
    /\ [](pc = "found" => IF CapBound = None THEN TRUE ELSE index <= CapBound.some)

\* One of two sequences starts with the other.
Comparable(a, b) ==
    SubSeq(a, 1, Min(Len(a), Len(b))) = SubSeq(b, 1, Min(Len(a), Len(b)))

C23_DecodeFixture ==
    (pc = "parse" /\ output # None /\ input.fn = "nnid_decode"
        /\ input.arg.text = FIXTURE) =>
        /\ output.status = "ok"
        /\ output.date = Date(12, 1, 3, 3, 0, 0, 312790)
        /\ output.rand = <<57005, 48879>>
        /\ nnid_encode(Note(output.date, output.rand, {})) = FIXTURE

\* The fixture has been decoded.
C23_Witness ==
    /\ pc = "parse" /\ input.fn = "nnid_decode" /\ input.arg.text = FIXTURE
    /\ output # None

\* C24: for a valid timestamp and a nonce of 32 bits, head_encode and
\* tail_encode are below 2^32 and nnid_encode is three groups of exactly
\* eight hexadecimal digits, of the identifier string format.
C24_FieldsFit32Bits ==
    (pc = "codec" /\ nnid # <<>>) =>
        /\ Wide(head_encode(arg.date))[1] < 65536
        /\ tail_encode(arg.date)[1] < 65536
        /\ Len(nnid) = 26
        /\ ThreeHexGroups(nnid)
        /\ NnidMatch(nnid)

\* The last microsecond of year 9999, the largest head and tail there are,
\* has been encoded.
C24_Witness ==
    /\ pc = "codec" /\ nnid # <<>>
    /\ arg.date = Date(9999, 12, 31, 23, 59, 59, 999999)
    /\ Fmt08x(tail_encode(arg.date)) = <<"d", "6", "9", "3", "a", "3", "f", "f">>

\* The names in a directory that match the leaf pattern.
LeafNames(dir) == { fn \in listdir(dir) : LeafMatch(fn) }

\* A level holds one entry for each identifier of the leaf names of a
\* directory and no other, each with the extensions of all the files of its
\* identifier.
LeafLevelMerged(dir, level) ==
    /\ { level[i][1] : i \in 1..Len(level) } =
           { LeafNnid(fn) : fn \in LeafNames(dir) }
    /\ \A i, j \in 1..Len(level) : i # j => level[i][1] # level[j][1]
    /\ \A i \in 1..Len(level) :
           level[i][2] = { LeafExt(fn) :
                             fn \in { x \in LeafNames(dir) :
                                        LeafNnid(x) = level[i][1] } }

\* C25: the level stack_push pushes for a leaf directory has exactly one
\* entry for each identifier among the files that match the leaf pattern,
\* with the extensions of all the files of that identifier; no note is
\* yielded twice, and with no extension filter a yielded note carries the
\* extensions of all its files.
C25_LeafMerge ==
    /\ [][(pc = "find" /\ ~max_depth(stacks) /\ max_depth(stacks'))
          => LeafLevelMerged(cursor', Top(stacks'))]_vars
    /\ [](\A i, j \in 1..Len(yielded) :
              i # j => Key(yielded[i]) # Key(yielded[j]))
    /\ []((WellPlaced /\ select_extensions = {} /\ exclude_extensions = {}) =>
              \A i \in 1..Len(yielded) :
                  yielded[i].exts = ExtsOf(dirname(yielded[i]),
                                           nnid_encode(yielded[i])))

\* A leaf level with two entries, one of them a note of two files, and that
\* note has been yielded once with both extensions.
C25_Witness ==
    /\ pc = "stopped" /\ WellPlaced
    /\ select_extensions = {} /\ exclude_extensions = {}
    /\ Cardinality(fs) = 3
    /\ Len(yielded) = 2
    /\ \E i \in 1..2 : yielded[i].exts = {TXT, JPG}

\* An identifier of the identifier string format, in either case, followed
\* by a dotted extension.
IdentifierDotExt(fn) ==
    /\ Len(fn) >= 28
    /\ \A i \in 1..26 :
          IF i \in {9, 18} THEN fn[i] = "-" ELSE fn[i] \in HexChars
    /\ fn[27] = "."
    /\ \A i \in 28..Len(fn) : ~IsSpace(fn[i])

\* C26: once a traversal with no filter is over, every file of a leaf
\* directory named by an identifier in either case and a dotted extension,
\* whose identifier decodes, has had its note yielded.
C26_UppercaseLeafNames ==
    (pc = "stopped" /\ NoWindow /\ since = None /\ until = None
        /\ select_extensions = {} /\ exclude_extensions = {}
        /\ select_attributes = {} /\ exclude_attributes = {} /\ grep = None) =>
        \A q \in fs :
            (/\ Len(q) = NOTE_CUT + 2
             /\ IdentifierDotExt(Last(q))
             /\ nnid_decode(LeafNnid(Last(q))).status = "ok") =>
                <<nnid_decode(LeafNnid(Last(q))).date,
                  nnid_decode(LeafNnid(Last(q))).rand>> \in YieldedKeys

\* The pattern of stack_push for the names listed in a directory k
\* components deep: a bucket pattern above the leaf level, the leaf pattern
\* at it.
LevelMatch(k, name) ==
    IF k = NOTE_CUT + 1 THEN LeafMatch(name)
    ELSE IsDigits(name, NOTE_CUT_RE[k])

\* A file below a name its level's pattern does not match.
Unmatched(q) ==
    \E k \in 1..Min(Len(q) - 1, NOTE_CUT + 1) : ~LevelMatch(k, q[k + 1])

\* The note files every component of which matches its level's pattern.
MatchedFiles ==
    { q \in fs : Len(q) = NOTE_CUT + 2 /\ ~Unmatched(q) }

\* The notes of the matched files, with the extensions of the matched files
\* of their identifier and directory.
MatchedNotes ==
    { Note(nnid_decode(LeafNnid(Last(q))).date,
           nnid_decode(LeafNnid(Last(q))).rand,
           { LeafExt(Last(f)) :
               f \in { g \in MatchedFiles : /\ ButLast(g) = ButLast(q)
                                           /\ LeafNnid(Last(g)) = LeafNnid(Last(q)) } }) :
        q \in { f \in MatchedFiles : nnid_decode(LeafNnid(Last(f))).status = "ok" } }

\* The names of a directory that its level's pattern matches, in the order
\* of the traversal, last one first.
MatchedLevel(dir) ==
    LET names == SortNames({ fn \in listdir(dir) : LevelMatch(Len(dir), fn) })
    IN  IF ~reverse THEN Reversed(names) ELSE names

\* The names a level stands for: bucket names, or the identifiers of leaf
\* entries.
LevelNames(k, level) ==
    IF k = NOTE_CUT + 1 THEN { level[i][1] : i \in 1..Len(level) }
    ELSE { level[i] : i \in 1..Len(level) }

\* C27: a name its level's pattern does not match is dropped when the
\* directory is listed.  The level pushed for a directory is the one its
\* matching names alone give; no stack and no cursor ever holds a name that
\* fails its pattern; every yielded note is the note of a file all of whose
\* components match; an exception is raised at matching names only, and never
\* in a hierarchy whose matching files are well placed notes; and a complete
\* traversal with no date range yields the notes the matching files give.
C27_NonMatchingSkipped ==
    /\ [][(pc = "find" /\ Len(stacks') = Len(stacks) + 1) =>
            IF max_depth(stacks')
            THEN /\ [i \in 1..Len(Top(stacks')) |-> Top(stacks')[i][1]]
                        = LET ids == SortNames({ LeafNnid(fn) :
                                         fn \in { x \in listdir(cursor') : LeafMatch(x) } })
                          IN  IF ~reverse THEN Reversed(ids) ELSE ids
            ELSE Top(stacks') = MatchedLevel(cursor')]_vars
    /\ [](\A k \in 2..Len(stacks) :
              \A name \in LevelNames(k - 1, stacks[k]) :
                  IF k - 1 = NOTE_CUT + 1
                  THEN \E fn \in listdir(SubSeq(cursor, 1, k - 1)) :
                           LeafMatch(fn) /\ LeafNnid(fn) = name
                  ELSE LevelMatch(k - 1, name))
    /\ [](\A k \in 2..Len(cursor) : LevelMatch(k - 1, cursor[k]))
    /\ [](\A i \in 1..Len(yielded) :
              \E q \in MatchedFiles :
                  /\ nnid_decode(LeafNnid(Last(q))).status = "ok"
                  /\ Key(yielded[i]) = <<nnid_decode(LeafNnid(Last(q))).date,
                                          nnid_decode(LeafNnid(Last(q))).rand>>)
    /\ []((\A q \in fs :
              \/ Unmatched(q)
              \/ /\ q \in MatchedFiles
                 /\ nnid_decode(LeafNnid(Last(q))).status = "ok"
                 /\ ButLast(q) = dirname(Note(nnid_decode(LeafNnid(Last(q))).date,
                                              nnid_decode(LeafNnid(Last(q))).rand, {})))
            => pc # "error")
    /\ []((pc = "stopped" /\ NoWindow /\ since = None /\ until = None) =>
              YieldedKeys = { Key(n) : n \in { m \in MatchedNotes : valid_note(m) } })

\* A complete traversal of a hierarchy that holds a file and a directory no
\* bucket pattern matches and leaf files the leaf pattern does not match has
\* yielded the two notes of its matching files.
C27_Witness ==
    /\ pc = "stopped" /\ NOTE_CUT = 2
    /\ <<NOTE_DIR, JUNK>> \in fs
    /\ <<NOTE_DIR, XX, filename(SampleNotes[2]) \o TXT>> \in fs
    /\ \E q \in fs : Len(q) = NOTE_CUT + 2 /\ Last(q) = JUNK \o TXT
    /\ \E q \in fs : Len(q) = NOTE_CUT + 2 /\ ~LeafMatch(Last(q))
                        /\ Len(Last(q)) = 29
    /\ \E q \in fs : Len(q) = NOTE_CUT + 3 /\ q[NOTE_CUT + 2] = XX
    /\ Len(yielded) = 2

\* The directory find_note is about to pop off the top of the stack.
PoppedPath == Append(cursor, Last(Top(stacks)))

\* find_note is at a directory name whose partial path fails valid_cursor.
AtPrunedDirectory ==
    /\ pc = "find" /\ ~max_depth(stacks) /\ Top(stacks) # <<>>
    /\ ValidDate(cursor_date(PoppedPath))
    /\ ~valid_cursor(PoppedPath)

\* C28: when the partial path of a popped directory name fails valid_cursor
\* no level is pushed for it: after the step the cursor and the depth of the
\* stacks are what they were, the levels below the top are untouched and the
\* top has lost the popped name only.  The cursor never stands in a directory
\* that fails valid_cursor, and the stacks hold one level for the root and
\* one for each component of the cursor, none for a dropped name.
C28_PrunedNeverListed ==
    /\ [][AtPrunedDirectory =>
            /\ cursor' = cursor
            /\ Len(stacks') = Len(stacks)
            /\ ButLast(stacks') = ButLast(stacks)
            /\ Top(stacks') = ButLast(Top(stacks))
            /\ yielded' = yielded /\ index' = index /\ pc' = "find"]_vars
    /\ [](pc # "error" =>
              \A k \in 1..Len(cursor) : valid_cursor(SubSeq(cursor, 1, k)))
    /\ [](pc # "error" => Len(stacks) = Len(cursor) + 1)

\* A traversal has ended after it admitted a year and dropped a bucket below
\* it that holds a note, and it yielded another note.
C28_Witness ==
    /\ pc = "stopped" /\ WellPlaced /\ NOTE_CUT >= 2
    /\ Len(yielded) >= 1
    /\ \E q \in fs :
          \E k \in 3..(NOTE_CUT + 1) :
              /\ ValidDate(cursor_date(SubSeq(q, 1, k)))
              /\ ~valid_cursor(SubSeq(q, 1, k))
              /\ \A j \in 1..(k - 1) : valid_cursor(SubSeq(q, 1, j))

\* A metadata select or exclude filter is configured.
MetadataFiltered == select_attributes # {} \/ exclude_attributes # {}

\* The note of a leaf file passes the since/until check and the extension
\* check, as the rules of the filters put them.
ReachesAttributes(q) ==
    LET id == LeafNnid(Last(q))
        note == Note(nnid_decode(id).date, nnid_decode(id).rand,
                     ExtsOf(ButLast(q), id))
    IN  /\ SinceAdmits(since, note) /\ UntilAdmits(until, note)
        /\ Narrowed(note.exts) # {}

\* The record of the note of a leaf file.
RecordOf(q) ==
    realpath(Note(nnid_decode(LeafNnid(Last(q))).date,
                  nnid_decode(LeafNnid(Last(q))).rand, {}))

\* The leaf entry find_note is about to pop comes from this leaf file.
AtLeafFile(q) ==
    /\ pc = "find" /\ max_depth(stacks) /\ Top(stacks) # <<>>
    /\ q \in LeafFiles /\ ButLast(q) = cursor
    /\ LeafNnid(Last(q)) = Last(Top(stacks))[1]
    /\ nnid_decode(LeafNnid(Last(q))).status = "ok"

\* C29: valid_note opens the metadata record of a note only if a metadata
\* filter is configured and the note has passed the since/until check and the
\* extension check: a step at a note the date range or the extension
\* narrowing rejects opens no record, a traversal with no metadata filter
\* opens none at all, and every record opened is that of a note that reached
\* the attribute filters.  Each note yielded under a metadata filter had its
\* record opened.
C29_LazyMetadata ==
    /\ [][(\E q \in fs : AtLeafFile(q) /\ ~ReachesAttributes(q))
            => loaded' = loaded]_vars
    /\ [][~MetadataFiltered => loaded' = loaded]_vars
    /\ [](~MetadataFiltered => loaded = {})
    /\ [](\A p \in loaded :
              /\ MetadataFiltered
              /\ \E q \in LeafFiles :
                    /\ nnid_decode(LeafNnid(Last(q))).status = "ok"
                    /\ RecordOf(q) = p
                    /\ ReachesAttributes(q))
    /\ [](MetadataFiltered =>
              \A i \in 1..Len(yielded) :
                  realpath(Note(yielded[i].date, yielded[i].rand, {})) \in loaded)

\* A traversal under a metadata filter has ended; it opened the record of
\* the note it yielded and not those of a note before the since bound and of
\* a note with no selected extension.
C29_Witness ==
    /\ pc = "stopped" /\ MetadataFiltered
    /\ since # None /\ select_extensions # {}
    /\ Cardinality(loaded) = 1 /\ Len(yielded) = 1
    /\ \E q \in LeafFiles :
          ~SinceAdmits(since, Note(nnid_decode(LeafNnid(Last(q))).date,
                                   nnid_decode(LeafNnid(Last(q))).rand, {}))
    /\ \E q \in LeafFiles :
          /\ SinceAdmits(since, Note(nnid_decode(LeafNnid(Last(q))).date,
                                     nnid_decode(LeafNnid(Last(q))).rand, {}))
          /\ Narrowed(ExtsOf(ButLast(q), LeafNnid(Last(q)))) = {}
    /\ Cardinality(DOMAIN meta) = 3

\* The same note is both bounds and nothing else filters.
IdentifierBounds ==
    /\ since # None /\ until # None /\ Key(since) = Key(until)
    /\ NoWindow /\ grep = None
    /\ select_extensions = {} /\ exclude_extensions = {}
    /\ select_attributes = {} /\ exclude_attributes = {}

\* The notes that exist: the files of a leaf directory named by an identifier
\* of the identifier string format and a dotted extension, in the directory
\* of their timestamp.
ExistingKeys ==
    { <<nnid_decode(LeafNnid(Last(q))).date, nnid_decode(LeafNnid(Last(q))).rand>> :
        q \in { f \in fs :
                  /\ Len(f) = NOTE_CUT + 2
                  /\ IdentifierDotExt(Last(f))
                  /\ nnid_decode(LeafNnid(Last(f))).status = "ok"
                  /\ ButLast(f) = dirname(Note(nnid_decode(LeafNnid(Last(f))).date,
                                               nnid_decode(LeafNnid(Last(f))).rand, {})) } }

\* C30: Note.argparse gives, for the identifier of the bound in lower or in
\* upper case and with or without round_up, the (timestamp, nonce) the
\* identifier decodes to; and a complete traversal with that note as since
\* and as until yields the note of that (timestamp, nonce) if it exists, and
\* no other note.
C30_IdentifierAsBound ==
    IdentifierBounds =>
        /\ \A t \in { nnid_encode(since), UpperHex(nnid_encode(since)) } :
              \A r \in BOOLEAN :
                  /\ argparse(t, r).status = "ok"
                  /\ <<argparse(t, r).date, argparse(t, r).rand>> = Key(since)
        /\ \A i \in 1..Len(yielded) : Key(yielded[i]) = Key(since)
        /\ pc = "stopped" => YieldedKeys = ExistingKeys \cap {Key(since)}

\* C31: no record holds a key that begins with '.', whatever the lists of
\* --tag-remove and --tag-assign.
C31_ExtensionKeysNeverSaved ==
    \A p \in DOMAIN meta :
        \A k \in DOMAIN meta[p] : ~(Len(k) > 0 /\ k[1] = ".")

\* An item 'a-b' of the list has a numerically greater than b.
HasInvertedItem(items) ==
    \E i \in 1..Len(items) : items[i][1] > items[i][2]

\* C32: argparse_range fails with ArgumentTypeError for every list that
\* holds an item 'a-b' with a numerically greater than b, and accepts every
\* list that holds none.
C32_InvertedRangesRejected ==
    (pc = "parse" /\ output # None /\ input.fn = "argparse_range") =>
        IF HasInvertedItem(input.arg.items)
        THEN output.status = "ArgumentTypeError"
        ELSE output.status = "ok"

\* A call of __next__ has ended the iteration.
Ended == result = StopIteration

\* C34: once a call of __next__ has raised StopIteration, no step changes the
\* cursor, the stacks, the index or the notes yielded; a later call goes
\* through the cap test and find_note only, finds the stacks exhausted when
\* it gets to find_note, and raises StopIteration again.
C34_TerminalAbsorbing ==
    /\ [][Ended =>
            /\ cursor' = cursor /\ stacks' = stacks /\ index' = index
            /\ yielded' = yielded /\ result' = StopIteration]_vars
    /\ [][(Ended /\ pc = "stopped") => pc' = "next"]_vars
    /\ [][(Ended /\ pc = "next") => pc' \in {"find", "stopped"}]_vars
    /\ [][(Ended /\ pc = "find") => pc' = "stopped"]_vars
    /\ [](Ended => pc \in {"stopped", "next", "find"})
    /\ []((Ended /\ pc = "find") => (cursor = <<>> /\ Top(stacks) = <<>>))

\* After the cap ended an iteration that had yielded a note, with names left
\* on the stacks, __next__ is called again.
C34_Witness ==
    /\ Ended /\ pc = "next"
    /\ index_max # None /\ index_max.some < index + 1
    /\ Len(yielded) >= 1
    /\ cursor # <<>> /\ Top(stacks) # <<>>

\* No element occurs twice in the sequence.
NoRepeat(seq) == \A i, j \in 1..Len(seq) : i # j => seq[i] # seq[j]

AtPassingLeaf ==
    /\ pc = "find" /\ max_depth(stacks) /\ Top(stacks) # <<>>
    /\ nnid_decode(Last(Top(stacks))[1]).status = "ok"
    /\ valid_note(Note(nnid_decode(Last(Top(stacks))[1]).date,
                       nnid_decode(Last(Top(stacks))[1]).rand,
                       Last(Top(stacks))[2]))

\* The 1-based position of a key among the filter-passing notes, in the
\* order of the traversal.
Position(key) ==
    Cardinality({ k \in PassingKeys :
                    IF reverse THEN KeyLeq(key, k) ELSE KeyLeq(k, key) })

\* C35: the index is 0 before the first call, grows by exactly 1 in a step at
\* a leaf that passes valid_note and is unchanged by every other step; the
\* index a note is yielded with is its position among the filter-passing
\* notes in traversal order; and the index never exceeds the effective upper
\* bound.
C35_OrdinalAccounting ==
    /\ [](visits = NoVisit => index = 0)
    /\ [][IF AtPassingLeaf THEN index' = index + 1 ELSE index' = index]_vars
    /\ [](WellPlaced =>
              \A i \in 1..Len(yielded) : yielded[i].ord = Position(Key(yielded[i])))
    /\ [](IF CapBound = None THEN TRUE ELSE index <= CapBound.some)

\* The until bound is what Note.argparse gives a date-spec with round_up:
\* the last microsecond of a period.
UntilFromDateSpec ==
    /\ until # None
    /\ \E n \in 1..6 :
          /\ argparse(SpecText(SubSeq(DateTuple(until.date), 1, n)), TRUE).status = "ok"
          /\ until = note_argument(SpecText(SubSeq(DateTuple(until.date), 1, n)), TRUE)

\* C36: with an until bound from a date-spec and nothing else to filter, a
\* complete traversal yields every note whose timestamp is not after the
\* last instant of the period, whatever its nonce.
C36_UntilCoversPeriod ==
    (/\ pc = "stopped" /\ WellPlaced /\ UntilFromDateSpec
     /\ since = None /\ NoWindow /\ grep = None
     /\ select_extensions = {} /\ exclude_extensions = {}
     /\ select_attributes = {} /\ exclude_attributes = {}) =>
        \A n \in LeafNotes :
            ~DateLess(until.date, n.date) => Key(n) \in YieldedKeys

\* A pull-next call has failed inside cursor_date, on a directory name.
FailedOnBucket == pc = "error" /\ result = Raised("ValueError", "cursor_date")

\* C37: a directory whose name passes the pattern of its level never makes
\* a pull-next call fail in the pruning check, and once the traversal is
\* over every note that passes the filters has been yielded.
C37_PruningCheckTotal ==
    /\ ~FailedOnBucket
    /\ (/\ pc \in {"stopped", "error"}
        /\ NoWindow /\ since = None /\ until = None
        /\ pc = "error" => result.in = "cursor_date") =>
           PassingKeys \subseteq YieldedKeys

\* A field of the date-spec lies outside its calendar range.
FieldOutOfRange(f) ==
    \/ (Len(f) >= 2 /\ (f[2] = 0 \/ f[2] > 12))
    \/ (Len(f) >= 3 /\ (f[3] = 0 \/ f[3] > 31))
    \/ (Len(f) >= 4 /\ f[4] > 23)
    \/ (Len(f) >= 5 /\ f[5] > 59)
    \/ (Len(f) >= 6 /\ f[6] > 59)

\* C38: for a date-spec the grammar matches, Note.argparse returns a note
\* or fails with ArgumentTypeError, and it fails with ArgumentTypeError when
\* a field is outside its calendar range.
C38_OutOfRangeIsSyntaxError ==
    (pc = "parse" /\ output # None /\ input.fn = "argparse") =>
        /\ output.status \in {"ok", "ArgumentTypeError"}
        /\ FieldOutOfRange(input.arg.fields) =>
              output.status = "ArgumentTypeError"
=============================================================================
